---- MODULE Spec2Model ----
(***************************************************************************)
(* A model of the lock-free ring buffers of CXXAudioUtilities:             *)
(*   SFB::RingBuffer       (SFBRingBuffer.cpp)       byte ring buffer      *)
(*   SFB::AudioRingBuffer  (SFBAudioRingBuffer.cpp)  frame ring buffer     *)
(*   SFB::CARingBuffer     (SFBCARingBuffer.cpp)     timestamped buffer    *)
(*                                                                         *)
(* Every buffer object is one record variable whose fields carry the names *)
(* of the C++ members.  Bytes are natural numbers; the producer's stream   *)
(* is the sequence 0, 1, ..., ByteModulus-1, 0, ... so that any lost,      *)
(* duplicated or reordered byte is visible (the code never inspects the    *)
(* data it copies).                                                        *)
(***************************************************************************)
EXTENDS Integers, Sequences, FiniteSets, TLC

VARIABLES
    rb,      \* the SFB::RingBuffer object
    arb,     \* the SFB::AudioRingBuffer object
    crb,     \* the SFB::CARingBuffer object
    published, \* with the CARingBuffer threads: the <<startTime, endTime>> pairs published so far
    harness, \* which object the driving program has allocated: "none", "byte", ...
    wrTotal, \* number of bytes accepted by Write so far, modulo ByteModulus
    rdTotal, \* number of bytes returned by Read so far, modulo ByteModulus
    last,    \* the most recent completed call: arguments, pre-state and results
    prev,    \* the call completed before `last`, kept when it was a Write into an empty buffer
    prod,    \* the producer thread: its position in Write and the locals of the call
    cons,    \* the consumer thread: its position in Read and the locals of the call
    written, \* the bytes accepted by the producer's completed Writes, in order
    readOut  \* the bytes returned by the consumer's completed Reads, in order

vars == <<rb, arb, crb, published, harness, wrTotal, rdTotal, last, prev, prod, cons, written, readOut>>

\* the variables of the two-thread programs, which the one-thread program leaves alone
threadVars == <<prod, cons, written, readOut, published>>

\* the variables of the one-thread program, which the two-thread programs leave alone
callVars == <<harness, wrTotal, rdTotal, last, prev>>

----------------------------------------------------------------------------
(* Bounds of the model *)

\* uint32_t is modelled as an unsigned integer of WordBits bits
WordBits == 8
\* capacity requested by the driving program from RingBuffer::Allocate
RequestedCapacityBytes == 3
\* the largest byteCount / frameCount passed to Read, Peek and Write
MaxCount == 4
\* the producer's byte stream repeats with this period
ByteModulus == 5
\* the producer thread starts no Write once this many bytes were accepted
MaxTotal == 8
\* capacity requested by the driving program from AudioRingBuffer::Allocate
RequestedCapacityFrames == 3
\* the format of the frame ring buffers: channels, and bytes per frame of a channel
NumChannels == 2
BytesPerFrame == 2
\* capacity requested by the driving program from CARingBuffer::Allocate
RequestedCapacityCA == 5
\* the largest sample time at which the driving program starts a Write
MaxTime == 6
\* the writing program starts no Write once this many bounds were published
MaxPublications == 2
\* the frames of every Write and Read of the CARingBuffer threads
StreamFrames == 2
\* the Writes the CARingBuffer writer thread makes
MaxStreamWrites == 5
\* the Writes the CARingBuffer writer thread makes while one call of the reader runs
MaxThrashWrites == 30
\* the thread writing on and on starts no Write once this many bounds were published
MaxLongPublications == 9

----------------------------------------------------------------------------
(* Machine arithmetic *)

Pow2(n) == 2 ^ n

UInt32Modulus == Pow2(WordBits)

\* conversion of a mathematical integer to uint32_t
U32(x) == x % UInt32Modulus

Min(a, b) == IF a < b THEN a ELSE b

Max(a, b) == IF a > b THEN a ELSE b

\* the C++ operator & on unsigned operands
RECURSIVE BitAnd(_, _)
BitAnd(a, b) ==
    IF a = 0 \/ b = 0 THEN 0
    ELSE (a % 2) * (b % 2) + 2 * BitAnd(a \div 2, b \div 2)

\* number of significant bits of n, i.e. 32 - __builtin_clz(n) for n > 0
RECURSIVE BitLength(_)
BitLength(n) == IF n = 0 THEN 0 ELSE 1 + BitLength(n \div 2)

\* NextPowerOfTwo giving the smallest power of two greater than x
NextPowerOfTwo_Greater(x) == U32(Pow2(BitLength(x)))

NextPowerOfTwo(x) == U32(Pow2(BitLength(x - 1)))

----------------------------------------------------------------------------
(* Memory *)

\* content of a byte that was never written (std::malloc'ed storage)
Uninit == -1
\* content of the caller's destination buffer on entry to a call
Poison == -2

NullBuffer == <<>>

\* a fresh allocation of n bytes, addressed 0 .. n-1
Malloc(n) == [i \in 0 .. n - 1 |-> Uninit]

\* std::memcpy(buf + off, data, Len(data))
MemWrite(buf, off, data) ==
    [i \in DOMAIN buf |->
        IF i >= off /\ i < off + Len(data) THEN data[i - off + 1] ELSE buf[i]]

\* the n bytes at buf + off
MemRead(buf, off, n) == [k \in 1 .. n |-> buf[off + k - 1]]

\* the caller's buffer handed to Read and Peek
FreshDst == [k \in 1 .. MaxCount |-> Poison]

\* std::memcpy(dst + off, data, Len(data)) into a caller's buffer (1-based sequence)
DstWrite(dst, off, data) ==
    [k \in DOMAIN dst |->
        IF k > off /\ k <= off + Len(data) THEN data[k - off] ELSE dst[k]]

\* the producer's next byteCount bytes, when n bytes were accepted before
Stream(n, byteCount) == [k \in 1 .. byteCount |-> (n + k - 1) % ByteModulus]

----------------------------------------------------------------------------
(* SFB::RingBuffer (SFBRingBuffer.cpp) *)

\* the object as its constructor leaves it
RingBuffer_Init ==
    [mBuffer |-> NullBuffer, mCapacityBytes |-> 0, mCapacityBytesMask |-> 0,
     mReadPosition |-> 0, mWritePosition |-> 0]

\* RingBuffer_Deallocate leaving the cursors where they are
RingBuffer_Deallocate_KeepCursors(o) ==
    IF o.mBuffer # NullBuffer
    THEN [o EXCEPT !.mBuffer = NullBuffer, !.mCapacityBytes = 0, !.mCapacityBytesMask = 0]
    ELSE o

RingBuffer_Deallocate(o) ==
    IF o.mBuffer # NullBuffer
    THEN [mBuffer |-> NullBuffer, mCapacityBytes |-> 0, mCapacityBytesMask |-> 0,
          mReadPosition |-> 0, mWritePosition |-> 0]
    ELSE o

\* whether Deallocate calls std::free
RingBuffer_Frees(o) == o.mBuffer # NullBuffer

\* RingBuffer_Reset storing the read cursor only
RingBuffer_Reset_ReadOnly(o) == [o EXCEPT !.mReadPosition = 0]

RingBuffer_Reset(o) == [o EXCEPT !.mReadPosition = 0, !.mWritePosition = 0]

\* mallocOk: whether std::malloc returns storage
RingBuffer_Allocate(o, capacityBytes, mallocOk) ==
    IF capacityBytes < 2 \/ capacityBytes > Pow2(WordBits - 1)
    THEN [ret |-> FALSE, obj |-> o]
    ELSE LET d == RingBuffer_Deallocate(o)
             c == NextPowerOfTwo(capacityBytes)
         IN  IF ~mallocOk
             THEN [ret |-> FALSE, obj |-> d]
             ELSE [ret |-> TRUE,
                   obj |-> [d EXCEPT !.mBuffer = Malloc(c),
                                     !.mCapacityBytes = c,
                                     !.mCapacityBytesMask = c - 1]]

\* ReadableBytes without the mask: equal cursors read as a full buffer
ReadableBytes_NoMask(writePosition, readPosition, capacity, mask) ==
    IF writePosition > readPosition
    THEN writePosition - readPosition
    ELSE U32(writePosition - readPosition + capacity)

\* bytesAvailable as Read, Peek, ReadVector and BytesAvailableToRead compute it
ReadableBytes(writePosition, readPosition, capacity, mask) ==
    IF writePosition > readPosition
    THEN writePosition - readPosition
    ELSE BitAnd(U32(writePosition - readPosition + capacity), mask)

\* WritableBytes without the reserved byte when the free region is contiguous
WritableBytes_NoSentinel(writePosition, readPosition, capacity, mask) ==
    IF writePosition > readPosition
    THEN U32(BitAnd(U32(readPosition - writePosition + capacity), mask) - 1)
    ELSE IF writePosition < readPosition
         THEN readPosition - writePosition
         ELSE U32(capacity - 1)

\* bytesAvailable as Write, WriteVector and BytesAvailableToWrite compute it
WritableBytes(writePosition, readPosition, capacity, mask) ==
    IF writePosition > readPosition
    THEN U32(BitAnd(U32(readPosition - writePosition + capacity), mask) - 1)
    ELSE IF writePosition < readPosition
         THEN (readPosition - writePosition) - 1
         ELSE U32(capacity - 1)

\* the policy with allowPartial taken as always set
Rejects_AlwaysPartial(available, count, allowPartial) == available = 0

\* the all-or-nothing test of Read, Peek and Write: nothing is transferred
Rejects(available, count, allowPartial) ==
    available = 0 \/ (available < count /\ ~allowPartial)

RingBuffer_BytesAvailableToRead(o) ==
    ReadableBytes(o.mWritePosition, o.mReadPosition, o.mCapacityBytes, o.mCapacityBytesMask)

RingBuffer_BytesAvailableToWrite(o) ==
    WritableBytes(o.mWritePosition, o.mReadPosition, o.mCapacityBytes, o.mCapacityBytesMask)

\* RingBuffer_Fetch with the second segment copied to the start of dst
RingBuffer_Fetch_SameDst(o, dst, readPosition, bytesToRead) ==
    IF readPosition + bytesToRead > o.mCapacityBytes
    THEN LET bytesAfterReadPointer == o.mCapacityBytes - readPosition
             d1 == DstWrite(dst, 0, MemRead(o.mBuffer, readPosition, bytesAfterReadPointer))
         IN  DstWrite(d1, 0, MemRead(o.mBuffer, 0, bytesToRead - bytesAfterReadPointer))
    ELSE DstWrite(dst, 0, MemRead(o.mBuffer, readPosition, bytesToRead))

\* the copy of Read and Peek: bytesToRead bytes from readPosition into dst,
\* in two segments when the region passes the physical end of the storage
RingBuffer_Fetch(o, dst, readPosition, bytesToRead) ==
    IF readPosition + bytesToRead > o.mCapacityBytes
    THEN LET bytesAfterReadPointer == o.mCapacityBytes - readPosition
             d1 == DstWrite(dst, 0, MemRead(o.mBuffer, readPosition, bytesAfterReadPointer))
         IN  DstWrite(d1, bytesAfterReadPointer,
                      MemRead(o.mBuffer, 0, bytesToRead - bytesAfterReadPointer))
    ELSE DstWrite(dst, 0, MemRead(o.mBuffer, readPosition, bytesToRead))

\* RingBuffer_Store with the second segment taken from the start of src
RingBuffer_Store_SameSrc(o, src, writePosition, bytesToWrite) ==
    IF writePosition + bytesToWrite > o.mCapacityBytes
    THEN LET bytesAfterWritePointer == o.mCapacityBytes - writePosition
             b1 == MemWrite(o.mBuffer, writePosition, SubSeq(src, 1, bytesAfterWritePointer))
         IN  MemWrite(b1, 0, SubSeq(src, 1, bytesToWrite - bytesAfterWritePointer))
    ELSE MemWrite(o.mBuffer, writePosition, SubSeq(src, 1, bytesToWrite))

\* the copy of Write: the first bytesToWrite bytes of src to writePosition
RingBuffer_Store(o, src, writePosition, bytesToWrite) ==
    IF writePosition + bytesToWrite > o.mCapacityBytes
    THEN LET bytesAfterWritePointer == o.mCapacityBytes - writePosition
             b1 == MemWrite(o.mBuffer, writePosition, SubSeq(src, 1, bytesAfterWritePointer))
         IN  MemWrite(b1, 0, SubSeq(src, bytesAfterWritePointer + 1, bytesToWrite))
    ELSE MemWrite(o.mBuffer, writePosition, SubSeq(src, 1, bytesToWrite))

\* dstNull: the caller passed a null destinationBuffer
RingBuffer_Read(o, dst, dstNull, byteCount, allowPartial) ==
    IF dstNull \/ byteCount = 0
    THEN [ret |-> 0, dst |-> dst, obj |-> o]
    ELSE LET writePosition == o.mWritePosition
             readPosition == o.mReadPosition
             bytesAvailable == ReadableBytes(writePosition, readPosition,
                                             o.mCapacityBytes, o.mCapacityBytesMask)
         IN  IF Rejects(bytesAvailable, byteCount, allowPartial)
             THEN [ret |-> 0, dst |-> dst, obj |-> o]
             ELSE LET bytesToRead == Min(bytesAvailable, byteCount)
                  IN  [ret |-> bytesToRead,
                       dst |-> RingBuffer_Fetch(o, dst, readPosition, bytesToRead),
                       obj |-> [o EXCEPT !.mReadPosition =
                                   BitAnd(U32(readPosition + bytesToRead), o.mCapacityBytesMask)]]

\* RingBuffer_Peek storing the read cursor as Read does
RingBuffer_Peek_Advancing(o, dst, dstNull, byteCount, allowPartial) ==
    IF dstNull \/ byteCount = 0
    THEN [ret |-> 0, dst |-> dst, obj |-> o]
    ELSE LET writePosition == o.mWritePosition
             readPosition == o.mReadPosition
             bytesAvailable == ReadableBytes(writePosition, readPosition,
                                             o.mCapacityBytes, o.mCapacityBytesMask)
         IN  IF Rejects(bytesAvailable, byteCount, allowPartial)
             THEN [ret |-> 0, dst |-> dst, obj |-> o]
             ELSE LET bytesToRead == Min(bytesAvailable, byteCount)
                  IN  [ret |-> bytesToRead,
                       dst |-> RingBuffer_Fetch(o, dst, readPosition, bytesToRead),
                       obj |-> [o EXCEPT !.mReadPosition =
                                   BitAnd(U32(readPosition + bytesToRead), o.mCapacityBytesMask)]]

RingBuffer_Peek(o, dst, dstNull, byteCount, allowPartial) ==
    IF dstNull \/ byteCount = 0
    THEN [ret |-> 0, dst |-> dst, obj |-> o]
    ELSE LET writePosition == o.mWritePosition
             readPosition == o.mReadPosition
             bytesAvailable == ReadableBytes(writePosition, readPosition,
                                             o.mCapacityBytes, o.mCapacityBytesMask)
         IN  IF Rejects(bytesAvailable, byteCount, allowPartial)
             THEN [ret |-> 0, dst |-> dst, obj |-> o]
             ELSE LET bytesToRead == Min(bytesAvailable, byteCount)
                  IN  [ret |-> bytesToRead,
                       dst |-> RingBuffer_Fetch(o, dst, readPosition, bytesToRead),
                       obj |-> o]

\* srcNull: the caller passed a null sourceBuffer
RingBuffer_Write(o, src, srcNull, byteCount, allowPartial) ==
    IF srcNull \/ byteCount = 0
    THEN [ret |-> 0, obj |-> o]
    ELSE LET writePosition == o.mWritePosition
             readPosition == o.mReadPosition
             bytesAvailable == WritableBytes(writePosition, readPosition,
                                             o.mCapacityBytes, o.mCapacityBytesMask)
         IN  IF Rejects(bytesAvailable, byteCount, allowPartial)
             THEN [ret |-> 0, obj |-> o]
             ELSE LET bytesToWrite == Min(bytesAvailable, byteCount)
                  IN  [ret |-> bytesToWrite,
                       obj |-> [o EXCEPT
                           !.mBuffer = RingBuffer_Store(o, src, writePosition, bytesToWrite),
                           !.mWritePosition =
                               BitAnd(U32(writePosition + bytesToWrite), o.mCapacityBytesMask)]]

\* RingBuffer_AdvanceReadPosition storing the sum without the mask
RingBuffer_AdvanceReadPosition_Unmasked(o, byteCount) ==
    [o EXCEPT !.mReadPosition = U32(o.mReadPosition + byteCount)]

RingBuffer_AdvanceReadPosition(o, byteCount) ==
    [o EXCEPT !.mReadPosition = BitAnd(U32(o.mReadPosition + byteCount), o.mCapacityBytesMask)]

\* RingBuffer_AdvanceWritePosition moving the read cursor along
RingBuffer_AdvanceWritePosition_Both(o, byteCount) ==
    [o EXCEPT !.mWritePosition = BitAnd(U32(o.mWritePosition + byteCount), o.mCapacityBytesMask),
              !.mReadPosition = BitAnd(U32(o.mReadPosition + byteCount), o.mCapacityBytesMask)]

RingBuffer_AdvanceWritePosition(o, byteCount) ==
    [o EXCEPT !.mWritePosition = BitAnd(U32(o.mWritePosition + byteCount), o.mCapacityBytesMask)]

\* a {pointer, length} pair; the pointer is an offset from mBuffer
NullPtr == -1

Span(ptr, len) == [ptr |-> ptr, len |-> len]

EmptySpan == Span(NullPtr, 0)

\* RingBuffer_ReadVector with the first span at the start of the storage
RingBuffer_ReadVector_FromStart(o) ==
    LET writePosition == o.mWritePosition
        readPosition == o.mReadPosition
        bytesAvailable == ReadableBytes(writePosition, readPosition,
                                        o.mCapacityBytes, o.mCapacityBytesMask)
        endOfRead == U32(readPosition + bytesAvailable)
    IN  IF endOfRead > o.mCapacityBytes
        THEN <<Span(0, o.mCapacityBytes - readPosition),
               Span(0, BitAnd(endOfRead, o.mCapacityBytes))>>
        ELSE <<Span(0, bytesAvailable), EmptySpan>>

RingBuffer_ReadVector(o) ==
    LET writePosition == o.mWritePosition
        readPosition == o.mReadPosition
        bytesAvailable == ReadableBytes(writePosition, readPosition,
                                        o.mCapacityBytes, o.mCapacityBytesMask)
        endOfRead == U32(readPosition + bytesAvailable)
    IN  IF endOfRead > o.mCapacityBytes
        THEN <<Span(readPosition, o.mCapacityBytes - readPosition),
               Span(0, BitAnd(endOfRead, o.mCapacityBytes))>>
        ELSE <<Span(readPosition, bytesAvailable), EmptySpan>>

RingBuffer_WriteVector(o) ==
    LET writePosition == o.mWritePosition
        readPosition == o.mReadPosition
        bytesAvailable == WritableBytes(writePosition, readPosition,
                                        o.mCapacityBytes, o.mCapacityBytesMask)
        endOfWrite == U32(writePosition + bytesAvailable)
    IN  IF endOfWrite > o.mCapacityBytes
        THEN <<Span(writePosition, o.mCapacityBytes - writePosition),
               Span(0, BitAnd(endOfWrite, o.mCapacityBytes))>>
        ELSE <<Span(writePosition, bytesAvailable), EmptySpan>>

----------------------------------------------------------------------------
(* SFB::AudioRingBuffer (SFBAudioRingBuffer.cpp) *)

\* the fields of CAStreamBasicDescription the ring buffers read
Format(channels, bytesPerFrame, nonInterleaved) ==
    [mChannelsPerFrame |-> channels, mBytesPerFrame |-> bytesPerFrame,
     nonInterleaved |-> nonInterleaved]

\* CAStreamBasicDescription::Reset
Format_Reset == Format(0, 0, FALSE)

IsInterleaved(format) == ~format.nonInterleaved

\* an AudioBuffer of an AudioBufferList
AudioBuffer(data, byteSize) == [mData |-> data, mDataByteSize |-> byteSize]

\* FetchABL copying the first channel buffer into every buffer of the list
FetchABL_FirstChannel(bufferList, dstOffset, buffers, srcOffset, byteCount) ==
    [i \in DOMAIN bufferList |->
        LET n == Min(byteCount, U32(bufferList[i].mDataByteSize - dstOffset))
        IN  [bufferList[i] EXCEPT
                !.mData = DstWrite(@, dstOffset, MemRead(buffers[1], srcOffset, n))]]

\* FetchABL: copies from the channel buffers into the buffer list
FetchABL(bufferList, dstOffset, buffers, srcOffset, byteCount) ==
    [i \in DOMAIN bufferList |->
        LET n == Min(byteCount, U32(bufferList[i].mDataByteSize - dstOffset))
        IN  [bufferList[i] EXCEPT
                !.mData = DstWrite(@, dstOffset, MemRead(buffers[i], srcOffset, n))]]

\* StoreABL: copies from the buffer list into the channel buffers
StoreABL(buffers, dstOffset, bufferList, srcOffset, byteCount) ==
    [i \in DOMAIN buffers |->
        IF i \in DOMAIN bufferList
        THEN LET n == Min(byteCount, U32(bufferList[i].mDataByteSize - srcOffset))
             IN  MemWrite(buffers[i], dstOffset,
                          SubSeq(bufferList[i].mData, srcOffset + 1, srcOffset + n))
        ELSE buffers[i]]

\* the object as its constructor leaves it
AudioRingBuffer_Init ==
    [mBuffers |-> NullBuffer, mFormat |-> Format_Reset,
     mCapacityFrames |-> 0, mCapacityFramesMask |-> 0,
     mReadPointer |-> 0, mWritePointer |-> 0]

AudioRingBuffer_Deallocate(o) ==
    IF o.mBuffers # NullBuffer
    THEN [mBuffers |-> NullBuffer, mFormat |-> Format_Reset,
          mCapacityFrames |-> 0, mCapacityFramesMask |-> 0,
          mReadPointer |-> 0, mWritePointer |-> 0]
    ELSE o

\* whether Deallocate calls std::free
AudioRingBuffer_Frees(o) == o.mBuffers # NullBuffer

AudioRingBuffer_Reset(o) == [o EXCEPT !.mReadPointer = 0, !.mWritePointer = 0]

\* the allocation of Allocate: zeroed channel regions of capacityBytes each
ZeroedChannels(channels, capacityBytes) ==
    [i \in 1 .. channels |-> [b \in 0 .. capacityBytes - 1 |-> 0]]

AudioRingBuffer_Allocate(o, format, capacityFrames, mallocOk) ==
    IF IsInterleaved(format) \/ capacityFrames < 2 \/ capacityFrames > Pow2(WordBits - 1)
    THEN [ret |-> FALSE, obj |-> o]
    ELSE LET d == AudioRingBuffer_Deallocate(o)
             c == NextPowerOfTwo(capacityFrames)
             capacityBytes == U32(c * format.mBytesPerFrame)
             a == [d EXCEPT !.mFormat = format,
                            !.mCapacityFrames = c,
                            !.mCapacityFramesMask = c - 1]
         IN  IF ~mallocOk
             THEN [ret |-> FALSE, obj |-> a]
             ELSE [ret |-> TRUE,
                   obj |-> [a EXCEPT
                       !.mBuffers = ZeroedChannels(format.mChannelsPerFrame, capacityBytes),
                       !.mReadPointer = 0,
                       !.mWritePointer = 0]]

\* framesAvailable as Read and FramesAvailableToRead compute it
ReadableFrames(writePointer, readPointer, capacity, mask) ==
    IF writePointer > readPointer
    THEN writePointer - readPointer
    ELSE BitAnd(U32(writePointer - readPointer + capacity), mask)

\* framesAvailable as Write and FramesAvailableToWrite compute it
WritableFrames(writePointer, readPointer, capacity, mask) ==
    IF writePointer > readPointer
    THEN U32(BitAnd(U32(readPointer - writePointer + capacity), mask) - 1)
    ELSE IF writePointer < readPointer
         THEN (readPointer - writePointer) - 1
         ELSE U32(capacity - 1)

AudioRingBuffer_FramesAvailableToRead(o) ==
    ReadableFrames(o.mWritePointer, o.mReadPointer, o.mCapacityFrames, o.mCapacityFramesMask)

AudioRingBuffer_FramesAvailableToWrite(o) ==
    WritableFrames(o.mWritePointer, o.mReadPointer, o.mCapacityFrames, o.mCapacityFramesMask)

\* SetByteSizes reporting the size on the first buffer of the list only
SetByteSizes_First(bufferList, byteSize) ==
    [i \in DOMAIN bufferList |->
        IF i = 1 THEN [bufferList[i] EXCEPT !.mDataByteSize = byteSize] ELSE bufferList[i]]

\* the write-back of the reported sizes at the end of Read
SetByteSizes(bufferList, byteSize) ==
    [i \in DOMAIN bufferList |-> [bufferList[i] EXCEPT !.mDataByteSize = byteSize]]

\* ablNull: the caller passed a null bufferList
AudioRingBuffer_Read(o, bufferList, ablNull, frameCount, allowPartial) ==
    IF ablNull \/ frameCount = 0
    THEN [ret |-> 0, abl |-> bufferList, obj |-> o]
    ELSE LET writePointer == o.mWritePointer
             readPointer == o.mReadPointer
             bpf == o.mFormat.mBytesPerFrame
             framesAvailable == ReadableFrames(writePointer, readPointer,
                                               o.mCapacityFrames, o.mCapacityFramesMask)
         IN  IF Rejects(framesAvailable, frameCount, allowPartial)
             THEN [ret |-> 0, abl |-> bufferList, obj |-> o]
             ELSE LET framesToRead == Min(framesAvailable, frameCount)
                      fetched ==
                          IF readPointer + framesToRead > o.mCapacityFrames
                          THEN LET framesAfterReadPointer == o.mCapacityFrames - readPointer
                                   bytesAfterReadPointer == U32(framesAfterReadPointer * bpf)
                                   l1 == FetchABL(bufferList, 0, o.mBuffers,
                                                  U32(readPointer * bpf), bytesAfterReadPointer)
                               IN  FetchABL(l1, bytesAfterReadPointer, o.mBuffers, 0,
                                            U32((framesToRead - framesAfterReadPointer) * bpf))
                          ELSE FetchABL(bufferList, 0, o.mBuffers, U32(readPointer * bpf),
                                        U32(framesToRead * bpf))
                  IN  [ret |-> framesToRead,
                       abl |-> SetByteSizes(fetched, U32(framesToRead * bpf)),
                       obj |-> [o EXCEPT !.mReadPointer =
                                   BitAnd(U32(readPointer + framesToRead), o.mCapacityFramesMask)]]

AudioRingBuffer_Write(o, bufferList, ablNull, frameCount, allowPartial) ==
    IF ablNull \/ frameCount = 0
    THEN [ret |-> 0, obj |-> o]
    ELSE LET writePointer == o.mWritePointer
             readPointer == o.mReadPointer
             bpf == o.mFormat.mBytesPerFrame
             framesAvailable == WritableFrames(writePointer, readPointer,
                                               o.mCapacityFrames, o.mCapacityFramesMask)
         IN  IF Rejects(framesAvailable, frameCount, allowPartial)
             THEN [ret |-> 0, obj |-> o]
             ELSE LET framesToWrite == Min(framesAvailable, frameCount)
                      stored ==
                          IF writePointer + framesToWrite > o.mCapacityFrames
                          THEN LET framesAfterWritePointer == o.mCapacityFrames - writePointer
                                   bytesAfterWritePointer == U32(framesAfterWritePointer * bpf)
                                   b1 == StoreABL(o.mBuffers, U32(writePointer * bpf),
                                                  bufferList, 0, bytesAfterWritePointer)
                               IN  StoreABL(b1, 0, bufferList, bytesAfterWritePointer,
                                            U32((framesToWrite - framesAfterWritePointer) * bpf))
                          ELSE StoreABL(o.mBuffers, U32(writePointer * bpf), bufferList, 0,
                                        U32(framesToWrite * bpf))
                  IN  [ret |-> framesToWrite,
                       obj |-> [o EXCEPT
                           !.mBuffers = stored,
                           !.mWritePointer =
                               BitAnd(U32(writePointer + framesToWrite), o.mCapacityFramesMask)]]

----------------------------------------------------------------------------
(* SFB::CARingBuffer (SFBCARingBuffer.cpp) *)

\* the number of slots of the time bounds queue, and its index mask
sTimeBoundsQueueSize == 8

sTimeBoundsQueueMask == sTimeBoundsQueueSize - 1

\* the attempts GetTimeBounds makes
GetTimeBoundsAttempts == 8

TimeBounds(startTime, endTime, updateCounter) ==
    [mStartTime |-> startTime, mEndTime |-> endTime, mUpdateCounter |-> updateCounter]

\* the queue as Allocate and Deallocate zero it
ZeroedQueue == [i \in 0 .. sTimeBoundsQueueSize - 1 |-> TimeBounds(0, 0, 0)]

\* the object as its constructor leaves it
CARingBuffer_Init ==
    [mBuffers |-> NullBuffer, mFormat |-> Format_Reset,
     mCapacityFrames |-> 0, mCapacityFramesMask |-> 0,
     mTimeBoundsQueue |-> ZeroedQueue, mTimeBoundsQueueCounter |-> 0]

CARingBuffer_Deallocate(o) ==
    IF o.mBuffers # NullBuffer
    THEN [mBuffers |-> NullBuffer, mFormat |-> Format_Reset,
          mCapacityFrames |-> 0, mCapacityFramesMask |-> 0,
          mTimeBoundsQueue |-> ZeroedQueue, mTimeBoundsQueueCounter |-> 0]
    ELSE o

\* whether Deallocate calls std::free
CARingBuffer_Frees(o) == o.mBuffers # NullBuffer

CARingBuffer_Allocate(o, format, capacityFrames, mallocOk) ==
    IF IsInterleaved(format) \/ capacityFrames < 2 \/ capacityFrames > Pow2(WordBits - 1)
    THEN [ret |-> FALSE, obj |-> o]
    ELSE LET d == CARingBuffer_Deallocate(o)
             c == NextPowerOfTwo(capacityFrames)
             capacityBytes == U32(c * format.mBytesPerFrame)
             a == [d EXCEPT !.mFormat = format,
                            !.mCapacityFrames = c,
                            !.mCapacityFramesMask = c - 1]
         IN  IF ~mallocOk
             THEN [ret |-> FALSE, obj |-> a]
             ELSE [ret |-> TRUE,
                   obj |-> [a EXCEPT
                       !.mBuffers = ZeroedChannels(format.mChannelsPerFrame, capacityBytes),
                       !.mTimeBoundsQueue = ZeroedQueue,
                       !.mTimeBoundsQueueCounter = 0]]

\* the slot of the queue the shared counter selects
CurrentSlot(o) ==
    o.mTimeBoundsQueue[BitAnd(o.mTimeBoundsQueueCounter, sTimeBoundsQueueMask)]

CARingBuffer_StartTime(o) == CurrentSlot(o).mStartTime

CARingBuffer_EndTime(o) == CurrentSlot(o).mEndTime

\* the byte offset in a channel region of the frame for a sample time
CARingBuffer_FrameByteOffset(o, frameNumber) ==
    U32(BitAnd(frameNumber, o.mCapacityFramesMask) * o.mFormat.mBytesPerFrame)

ChannelStreamCount(format) == IF IsInterleaved(format) THEN 1 ELSE format.mChannelsPerFrame

CARingBuffer_SetTimeBounds(o, startTime, endTime) ==
    LET nextCounter == o.mTimeBoundsQueueCounter + 1
        nextIndex == BitAnd(nextCounter, sTimeBoundsQueueMask)
    IN  [o EXCEPT !.mTimeBoundsQueue[nextIndex] = TimeBounds(startTime, endTime, nextCounter),
                  !.mTimeBoundsQueueCounter = nextCounter]

\* GetTimeBounds from attempt i on, when no other thread runs
RECURSIVE GetTimeBoundsFrom(_, _)
GetTimeBoundsFrom(o, i) ==
    IF i >= GetTimeBoundsAttempts
    THEN [ret |-> FALSE, startTime |-> 0, endTime |-> 0]
    ELSE LET currentCounter == o.mTimeBoundsQueueCounter
             currentIndex == BitAnd(currentCounter, sTimeBoundsQueueMask)
             bounds == o.mTimeBoundsQueue[currentIndex]
         IN  IF bounds.mUpdateCounter = currentCounter
             THEN [ret |-> TRUE, startTime |-> bounds.mStartTime, endTime |-> bounds.mEndTime]
             ELSE GetTimeBoundsFrom(o, i + 1)

CARingBuffer_GetTimeBounds(o) == GetTimeBoundsFrom(o, 0)

\* ClampTimes taking a range that starts before the start bound as outside the bounds
ClampTimes_StartsInside(b, startRead, endRead) ==
    IF ~b.ret
    THEN [ret |-> FALSE, startRead |-> startRead, endRead |-> endRead]
    ELSE IF startRead > b.endTime \/ startRead < b.startTime
         THEN [ret |-> TRUE, startRead |-> startRead, endRead |-> startRead]
         ELSE [ret |-> TRUE, startRead |-> startRead,
               endRead |-> Max(Min(endRead, b.endTime), startRead)]

\* ClampTimesToBounds on the bounds b that GetTimeBounds returned
ClampTimes(b, startRead, endRead) ==
    IF ~b.ret
    THEN [ret |-> FALSE, startRead |-> startRead, endRead |-> endRead]
    ELSE IF startRead > b.endTime \/ endRead < b.startTime
         THEN [ret |-> TRUE, startRead |-> startRead, endRead |-> startRead]
         ELSE LET s == Max(startRead, b.startTime)
              IN  [ret |-> TRUE, startRead |-> s,
                   endRead |-> Max(Min(endRead, b.endTime), s)]

CARingBuffer_ClampTimesToBounds(o, startRead, endRead) ==
    ClampTimes(CARingBuffer_GetTimeBounds(o), startRead, endRead)

\* n zero bytes
Zeros(n) == [k \in 1 .. n |-> 0]

\* ZeroRange: zeroes byteCount bytes at byteOffset of the first bufferCount channel buffers
ZeroRange(buffers, bufferCount, byteOffset, byteCount) ==
    [i \in DOMAIN buffers |->
        IF i <= bufferCount
        THEN MemWrite(buffers[i], byteOffset, Zeros(byteCount))
        ELSE buffers[i]]

\* ZeroABL zeroing the first buffer of the list only
ZeroABL_FirstBuffer(bufferList, byteOffset, byteCount) ==
    [i \in DOMAIN bufferList |->
        LET n == Min(byteCount, U32(bufferList[i].mDataByteSize - byteOffset))
        IN  IF i = 1
            THEN [bufferList[i] EXCEPT !.mData = DstWrite(@, byteOffset, Zeros(n))]
            ELSE bufferList[i]]

\* ZeroABL: zeroes up to byteCount bytes at byteOffset of every buffer of the list
ZeroABL(bufferList, byteOffset, byteCount) ==
    [i \in DOMAIN bufferList |->
        LET n == Min(byteCount, U32(bufferList[i].mDataByteSize - byteOffset))
        IN  [bufferList[i] EXCEPT !.mData = DstWrite(@, byteOffset, Zeros(n))]]

\* CARingBuffer_Fetch copying to the start of the buffer list
CARingBuffer_Fetch_ToStart(o, bufferList, destStartByteOffset, startRead, endRead) ==
    LET offset0 == CARingBuffer_FrameByteOffset(o, startRead)
        offset1 == CARingBuffer_FrameByteOffset(o, endRead)
    IN  IF offset0 < offset1
        THEN SetByteSizes(FetchABL(bufferList, 0, o.mBuffers, offset0, offset1 - offset0),
                          offset1 - offset0)
        ELSE LET byteCount == U32(o.mCapacityFrames * o.mFormat.mBytesPerFrame) - offset0
                 l1 == FetchABL(bufferList, 0, o.mBuffers, offset0, byteCount)
             IN  SetByteSizes(FetchABL(l1, byteCount, o.mBuffers, 0, offset1),
                              byteCount + offset1)

\* the copy of Read: the frames [startRead, endRead) to destStartByteOffset
CARingBuffer_Fetch(o, bufferList, destStartByteOffset, startRead, endRead) ==
    LET offset0 == CARingBuffer_FrameByteOffset(o, startRead)
        offset1 == CARingBuffer_FrameByteOffset(o, endRead)
    IN  IF offset0 < offset1
        THEN SetByteSizes(FetchABL(bufferList, destStartByteOffset, o.mBuffers, offset0,
                                   offset1 - offset0),
                          offset1 - offset0)
        ELSE LET byteCount == U32(o.mCapacityFrames * o.mFormat.mBytesPerFrame) - offset0
                 l1 == FetchABL(bufferList, destStartByteOffset, o.mBuffers, offset0, byteCount)
             IN  SetByteSizes(FetchABL(l1, destStartByteOffset + byteCount, o.mBuffers, 0,
                                       offset1),
                              byteCount + offset1)

\* Read from the return of ClampTimesToBounds on: clamp is what it returned
CARingBuffer_ReadClamped(o, bufferList, frameCount, startRead0, clamp) ==
         LET bpf == o.mFormat.mBytesPerFrame
             endRead0 == startRead0 + frameCount
             startRead == clamp.startRead
             endRead == clamp.endRead
         IN  IF ~clamp.ret
             THEN [ret |-> FALSE, abl |-> bufferList]
             ELSE IF startRead = endRead
             THEN [ret |-> TRUE, abl |-> ZeroABL(bufferList, 0, U32(frameCount * bpf))]
             ELSE LET byteSize == U32(U32(endRead - startRead) * bpf)
                      destStartByteOffset == U32(Max(0, (startRead - startRead0) * bpf))
                      l1 == IF destStartByteOffset > 0
                            THEN ZeroABL(bufferList, 0,
                                         Min(U32(frameCount * bpf), destStartByteOffset))
                            ELSE bufferList
                      destEndSize == U32(Max(0, endRead0 - endRead))
                      l2 == IF destEndSize > 0
                            THEN ZeroABL(l1, U32(destStartByteOffset + byteSize),
                                         U32(destEndSize * bpf))
                            ELSE l1
                  IN  [ret |-> TRUE,
                       abl |-> CARingBuffer_Fetch(o, l2, destStartByteOffset, startRead, endRead)]

\* CARingBuffer_Read without the check of frameCount against the capacity
CARingBuffer_Read_AnyCount(o, bufferList, ablNull, frameCount, startRead0) ==
    IF frameCount = 0
    THEN [ret |-> TRUE, abl |-> bufferList]
    ELSE IF ablNull \/ startRead0 < 0
    THEN [ret |-> FALSE, abl |-> bufferList]
    ELSE CARingBuffer_ReadClamped(o, bufferList, frameCount, startRead0,
             CARingBuffer_ClampTimesToBounds(o, startRead0, startRead0 + frameCount))

CARingBuffer_Read(o, bufferList, ablNull, frameCount, startRead0) ==
    IF frameCount = 0
    THEN [ret |-> TRUE, abl |-> bufferList]
    ELSE IF ablNull \/ frameCount > o.mCapacityFrames \/ startRead0 < 0
    THEN [ret |-> FALSE, abl |-> bufferList]
    ELSE CARingBuffer_ReadClamped(o, bufferList, frameCount, startRead0,
             CARingBuffer_ClampTimesToBounds(o, startRead0, startRead0 + frameCount))

\* CARingBuffer_Evict keeping the end bound when the start bound advances
CARingBuffer_Evict_KeepEnd(o, startWrite, endWrite) ==
    IF startWrite < CARingBuffer_EndTime(o)
    THEN CARingBuffer_SetTimeBounds(o, startWrite, startWrite)
    ELSE IF endWrite - CARingBuffer_StartTime(o) <= o.mCapacityFrames
    THEN o
    ELSE CARingBuffer_SetTimeBounds(o, endWrite - o.mCapacityFrames, CARingBuffer_EndTime(o))

\* CARingBuffer_Evict advancing the start bound to the start of the write
CARingBuffer_Evict_ToStartWrite(o, startWrite, endWrite) ==
    IF startWrite < CARingBuffer_EndTime(o)
    THEN CARingBuffer_SetTimeBounds(o, startWrite, startWrite)
    ELSE IF endWrite - CARingBuffer_StartTime(o) <= o.mCapacityFrames
    THEN o
    ELSE CARingBuffer_SetTimeBounds(o, startWrite, Max(startWrite, CARingBuffer_EndTime(o)))

\* the first step of Write: the bounds published before any frame is touched
CARingBuffer_Evict(o, startWrite, endWrite) ==
    IF startWrite < CARingBuffer_EndTime(o)
    THEN CARingBuffer_SetTimeBounds(o, startWrite, startWrite)
    ELSE IF endWrite - CARingBuffer_StartTime(o) <= o.mCapacityFrames
    THEN o
    ELSE LET newStart == endWrite - o.mCapacityFrames
             newEnd == Max(newStart, CARingBuffer_EndTime(o))
         IN  CARingBuffer_SetTimeBounds(o, newStart, newEnd)

\* CARingBuffer_ZeroGap without the case of a gap across the physical wrap
CARingBuffer_ZeroGap_NoWrap(o, startWrite) ==
    LET curEnd == CARingBuffer_EndTime(o)
        offset0 == CARingBuffer_FrameByteOffset(o, curEnd)
        offset1 == CARingBuffer_FrameByteOffset(o, startWrite)
        channels == ChannelStreamCount(o.mFormat)
    IN  IF startWrite > curEnd /\ offset0 < offset1
        THEN ZeroRange(o.mBuffers, channels, offset0, offset1 - offset0)
        ELSE o.mBuffers

\* the second step of Write: the skipped frames [curEnd, startWrite) zeroed
CARingBuffer_ZeroGap(o, startWrite) ==
    LET curEnd == CARingBuffer_EndTime(o)
        offset0 == CARingBuffer_FrameByteOffset(o, curEnd)
        offset1 == CARingBuffer_FrameByteOffset(o, startWrite)
        channels == ChannelStreamCount(o.mFormat)
    IN  IF startWrite > curEnd
        THEN IF offset0 < offset1
             THEN ZeroRange(o.mBuffers, channels, offset0, offset1 - offset0)
             ELSE ZeroRange(ZeroRange(o.mBuffers, channels, offset0,
                                      U32(o.mCapacityFrames * o.mFormat.mBytesPerFrame) - offset0),
                            channels, 0, offset1)
        ELSE o.mBuffers

\* CARingBuffer_Store without the frames after the physical wrap
CARingBuffer_Store_NoWrap(o, buffers, bufferList, startWrite, endWrite) ==
    LET offset0 == CARingBuffer_FrameByteOffset(o, startWrite)
        offset1 == CARingBuffer_FrameByteOffset(o, endWrite)
    IN  IF offset0 < offset1
        THEN StoreABL(buffers, offset0, bufferList, 0, offset1 - offset0)
        ELSE StoreABL(buffers, offset0, bufferList, 0,
                      U32(o.mCapacityFrames * o.mFormat.mBytesPerFrame) - offset0)

\* the third step of Write: the frames stored at [startWrite, endWrite)
CARingBuffer_Store(o, buffers, bufferList, startWrite, endWrite) ==
    LET offset0 == CARingBuffer_FrameByteOffset(o, startWrite)
        offset1 == CARingBuffer_FrameByteOffset(o, endWrite)
    IN  IF offset0 < offset1
        THEN StoreABL(buffers, offset0, bufferList, 0, offset1 - offset0)
        ELSE LET byteCount == U32(o.mCapacityFrames * o.mFormat.mBytesPerFrame) - offset0
             IN  StoreABL(StoreABL(buffers, offset0, bufferList, 0, byteCount),
                          0, bufferList, byteCount, offset1)

CARingBuffer_Write(o, bufferList, ablNull, frameCount, startWrite) ==
    IF frameCount = 0
    THEN [ret |-> TRUE, obj |-> o]
    ELSE IF ablNull \/ frameCount > o.mCapacityFrames \/ startWrite < 0
    THEN [ret |-> FALSE, obj |-> o]
    ELSE LET endWrite == startWrite + frameCount
             evicted == CARingBuffer_Evict(o, startWrite, endWrite)
             zeroed == CARingBuffer_ZeroGap(evicted, startWrite)
             stored == [evicted EXCEPT !.mBuffers =
                           CARingBuffer_Store(evicted, zeroed, bufferList, startWrite, endWrite)]
         IN  [ret |-> TRUE,
              obj |-> CARingBuffer_SetTimeBounds(stored, CARingBuffer_StartTime(stored), endWrite)]

----------------------------------------------------------------------------
(* The driving program: one thread calling the operations one after another *)

Counts == 0 .. MaxCount

\* the <<count, allowPartial, null buffer>> arguments the program passes: every
\* count with either policy, and a null buffer (rejected before the count is read)
Args ==
    {<<c, p, FALSE>> : c \in Counts, p \in BOOLEAN} \cup {<<1, p, TRUE>> : p \in BOOLEAN}

NoVector == <<EmptySpan, EmptySpan>>

\* the record of a completed call: its arguments (count, partial, null, src),
\* the cursors on entry (r0, w0), and its results (ret, dst, vec)
Call(op, count, partial, null, ret, src, dst, r0, w0, vec) ==
    [op |-> op, count |-> count, partial |-> partial, null |-> null, ret |-> ret,
     src |-> src, dst |-> dst, r0 |-> r0, w0 |-> w0, vec |-> vec]

NoCall == Call("none", 0, FALSE, FALSE, 0, <<>>, <<>>, 0, 0, NoVector)

\* what `prev` keeps of the call c that the next call follows
Remember(c) == IF c.op = "Write" /\ c.r0 = c.w0 THEN c ELSE NoCall

\* byte b of channel c of the n-th frame of the producer's stream (never 0)
FrameByte(n, c, b) == ((n % ByteModulus) * NumChannels + (c - 1)) * BytesPerFrame + b + 1

\* the buffer list holding the producer's next frameCount frames, when n
\* frames were accepted before
FrameSource(n, frameCount) ==
    [c \in 1 .. NumChannels |->
        AudioBuffer([k \in 1 .. frameCount * BytesPerFrame |->
                        FrameByte(n + (k - 1) \div BytesPerFrame, c, (k - 1) % BytesPerFrame)],
                    frameCount * BytesPerFrame)]

\* the buffer list handed to AudioRingBuffer::Read
FreshABL ==
    [c \in 1 .. NumChannels |->
        AudioBuffer([k \in 1 .. MaxCount * BytesPerFrame |-> Poison],
                    MaxCount * BytesPerFrame)]

TheFormat == Format(NumChannels, BytesPerFrame, TRUE)

\* a thread that is in no call; ret is what its last call returned
Idle(ret) ==
    [pc |-> "idle", ret |-> ret, count |-> 0, partial |-> FALSE, buf |-> <<>>,
     writePosition |-> 0, readPosition |-> 0, n |-> 0, seg |-> 0, i |-> 0]

Init ==
    /\ rb = RingBuffer_Init
    /\ arb = AudioRingBuffer_Init
    /\ crb = CARingBuffer_Init
    /\ published = {}
    /\ prod = Idle(0)
    /\ cons = Idle(0)
    /\ written = <<>>
    /\ readOut = <<>>
    /\ harness = "none"
    /\ wrTotal = 0
    /\ rdTotal = 0
    /\ last = NoCall
    /\ prev = NoCall

ByteAllocate ==
    /\ harness = "none"
    /\ LET res == RingBuffer_Allocate(rb, RequestedCapacityBytes, TRUE)
       IN  /\ res.ret
           /\ rb' = res.obj
    /\ harness' = "byte"
    /\ UNCHANGED <<arb, wrTotal, rdTotal, last, prev>>
    /\ UNCHANGED <<crb, threadVars>>

ByteRead ==
    /\ harness = "byte"
    /\ \E a \in Args :
         LET byteCount == a[1]
             allowPartial == a[2]
             dstNull == a[3]
             res == RingBuffer_Read(rb, FreshDst, dstNull, byteCount, allowPartial)
         IN  /\ rb' = res.obj
             /\ rdTotal' = (rdTotal + res.ret) % ByteModulus
             /\ last' = Call("Read", byteCount, allowPartial, dstNull, res.ret, <<>>,
                             res.dst, rb.mReadPosition, rb.mWritePosition, NoVector)
    /\ prev' = Remember(last)
    /\ UNCHANGED <<arb, harness, wrTotal>>
    /\ UNCHANGED <<crb, threadVars>>

BytePeek ==
    /\ harness = "byte"
    /\ \E a \in Args :
         LET byteCount == a[1]
             allowPartial == a[2]
             dstNull == a[3]
             res == RingBuffer_Peek(rb, FreshDst, dstNull, byteCount, allowPartial)
         IN  /\ rb' = res.obj
             /\ last' = Call("Peek", byteCount, allowPartial, dstNull, res.ret, <<>>,
                             res.dst, rb.mReadPosition, rb.mWritePosition, NoVector)
    /\ prev' = Remember(last)
    /\ UNCHANGED <<arb, harness, wrTotal, rdTotal>>
    /\ UNCHANGED <<crb, threadVars>>

ByteWrite ==
    /\ harness = "byte"
    /\ \E a \in Args :
         LET byteCount == a[1]
             allowPartial == a[2]
             srcNull == a[3]
             src == Stream(wrTotal, byteCount)
             res == RingBuffer_Write(rb, src, srcNull, byteCount, allowPartial)
         IN  /\ rb' = res.obj
             /\ wrTotal' = (wrTotal + res.ret) % ByteModulus
             /\ last' = Call("Write", byteCount, allowPartial, srcNull, res.ret, src,
                             <<>>, rb.mReadPosition, rb.mWritePosition, NoVector)
    /\ prev' = Remember(last)
    /\ UNCHANGED <<arb, harness, rdTotal>>
    /\ UNCHANGED <<crb, threadVars>>

ByteReadVector ==
    /\ harness = "byte"
    /\ last' = Call("ReadVector", 0, FALSE, FALSE, 0, <<>>, <<>>,
                    rb.mReadPosition, rb.mWritePosition, RingBuffer_ReadVector(rb))
    /\ prev' = Remember(last)
    /\ UNCHANGED <<rb, arb, harness, wrTotal, rdTotal>>
    /\ UNCHANGED <<crb, threadVars>>

ByteWriteVector ==
    /\ harness = "byte"
    /\ last' = Call("WriteVector", 0, FALSE, FALSE, 0, <<>>, <<>>,
                    rb.mReadPosition, rb.mWritePosition, RingBuffer_WriteVector(rb))
    /\ prev' = Remember(last)
    /\ UNCHANGED <<rb, arb, harness, wrTotal, rdTotal>>
    /\ UNCHANGED <<crb, threadVars>>

FrameAllocate ==
    /\ harness = "none"
    /\ LET res == AudioRingBuffer_Allocate(arb, TheFormat, RequestedCapacityFrames, TRUE)
       IN  /\ res.ret
           /\ arb' = res.obj
    /\ harness' = "frame"
    /\ UNCHANGED <<rb, wrTotal, rdTotal, last, prev>>
    /\ UNCHANGED <<crb, threadVars>>

FrameRead ==
    /\ harness = "frame"
    /\ \E a \in Args :
         LET frameCount == a[1]
             allowPartial == a[2]
             ablNull == a[3]
             res == AudioRingBuffer_Read(arb, FreshABL, ablNull, frameCount, allowPartial)
         IN  /\ arb' = res.obj
             /\ rdTotal' = (rdTotal + res.ret) % ByteModulus
             /\ last' = Call("Read", frameCount, allowPartial, ablNull, res.ret, <<>>,
                             res.abl, arb.mReadPointer, arb.mWritePointer, NoVector)
    /\ prev' = Remember(last)
    /\ UNCHANGED <<rb, harness, wrTotal>>
    /\ UNCHANGED <<crb, threadVars>>

FrameWrite ==
    /\ harness = "frame"
    /\ \E a \in Args :
         LET frameCount == a[1]
             allowPartial == a[2]
             ablNull == a[3]
             src == FrameSource(wrTotal, frameCount)
             res == AudioRingBuffer_Write(arb, src, ablNull, frameCount, allowPartial)
         IN  /\ arb' = res.obj
             /\ wrTotal' = (wrTotal + res.ret) % ByteModulus
             /\ last' = Call("Write", frameCount, allowPartial, ablNull, res.ret, src,
                             <<>>, arb.mReadPointer, arb.mWritePointer, NoVector)
    /\ prev' = Remember(last)
    /\ UNCHANGED <<rb, harness, rdTotal>>
    /\ UNCHANGED <<crb, threadVars>>

Next ==
    \/ FrameAllocate
    \/ FrameRead
    \/ FrameWrite
    \/ ByteAllocate
    \/ ByteRead
    \/ BytePeek
    \/ ByteWrite
    \/ ByteReadVector
    \/ ByteWriteVector

Spec == Init /\ [][Next]_vars

----------------------------------------------------------------------------
(* Claims about the byte ring buffer driven by one thread *)

\* the bytes at logical positions 1 .. n of the ring starting at physical
\* position pos, whatever the split the code uses
RingContent(o, pos, n) == [k \in 1 .. n |-> o.mBuffer[(pos + k - 1) % o.mCapacityBytes]]

\* C2: for an allocated ByteRingBuffer of capacity C, after every sequence of
\* Read, Peek and Write calls, BytesAvailableToRead() + BytesAvailableToWrite()
\* equals C - 1.
C2_AvailabilitySum ==
    harness = "byte" =>
        RingBuffer_BytesAvailableToRead(rb) + RingBuffer_BytesAvailableToWrite(rb)
            = rb.mCapacityBytes - 1

\* a Write has wrapped the write cursor below the read cursor
C2_Witness ==
    /\ harness = "byte"
    /\ last.op = "Write"
    /\ last.ret > 0
    /\ rb.mWritePosition < rb.mReadPosition
    /\ RingBuffer_BytesAvailableToRead(rb) + RingBuffer_BytesAvailableToWrite(rb)
           = rb.mCapacityBytes - 1

\* C3: on an empty buffer with both cursors at a common position p, Write of N
\* bytes (1 <= N <= capacity-1) followed by Read of N bytes both return N and
\* the bytes read are the bytes written, in order, for every p.
C3_RoundTrip ==
    ( /\ harness = "byte"
      /\ prev.op = "Write" /\ ~prev.null
      /\ prev.r0 = prev.w0
      /\ prev.count >= 1 /\ prev.count <= rb.mCapacityBytes - 1
      /\ last.op = "Read" /\ ~last.null
      /\ last.count = prev.count )
    => /\ prev.ret = prev.count
       /\ last.ret = prev.count
       /\ SubSeq(last.dst, 1, prev.count) = prev.src

\* the round trip of 2 or more bytes has passed the physical end of the storage
C3_Witness ==
    /\ harness = "byte"
    /\ prev.op = "Write" /\ ~prev.null
    /\ prev.r0 = prev.w0
    /\ prev.w0 + prev.count > rb.mCapacityBytes
    /\ last.op = "Read" /\ ~last.null
    /\ last.count = prev.count
    /\ last.ret = prev.count
    /\ SubSeq(last.dst, 1, prev.count) = prev.src

\* C5: if 0 < available < requested and allowPartial is true, Read and Write
\* return exactly `available`, transfer exactly the first `available` units
\* (the oldest unread bytes for Read, the leading bytes of the source for
\* Write) and advance the caller's own cursor by `available` modulo capacity.
C5_PartialStep ==
    LET c == last'
        availableToRead == RingBuffer_BytesAvailableToRead(rb)
        availableToWrite == RingBuffer_BytesAvailableToWrite(rb)
    IN  /\ ( /\ harness = "byte" /\ c.op = "Read" /\ ~c.null /\ c.partial
             /\ 0 < availableToRead /\ availableToRead < c.count )
           => /\ c.ret = availableToRead
              /\ SubSeq(c.dst, 1, availableToRead) = Stream(rdTotal, availableToRead)
              /\ SubSeq(c.dst, 1, availableToRead)
                     = RingContent(rb, rb.mReadPosition, availableToRead)
              /\ \A k \in availableToRead + 1 .. MaxCount : c.dst[k] = Poison
              /\ rb'.mReadPosition
                     = (rb.mReadPosition + availableToRead) % rb.mCapacityBytes
              /\ rb'.mWritePosition = rb.mWritePosition
              /\ rb'.mBuffer = rb.mBuffer
        /\ ( /\ harness = "byte" /\ c.op = "Write" /\ ~c.null /\ c.partial
             /\ 0 < availableToWrite /\ availableToWrite < c.count )
           => /\ c.ret = availableToWrite
              /\ RingContent(rb', rb.mWritePosition, availableToWrite)
                     = SubSeq(c.src, 1, availableToWrite)
              /\ RingContent(rb', rb.mWritePosition + availableToWrite,
                             rb.mCapacityBytes - availableToWrite)
                     = RingContent(rb, rb.mWritePosition + availableToWrite,
                                   rb.mCapacityBytes - availableToWrite)
              /\ rb'.mWritePosition
                     = (rb.mWritePosition + availableToWrite) % rb.mCapacityBytes
              /\ rb'.mReadPosition = rb.mReadPosition

C5_Partial == [][C5_PartialStep]_vars

\* a partial Read whose transfer passed the physical end of the storage
C5_Witness ==
    /\ harness = "byte"
    /\ last.op = "Read" /\ ~last.null /\ last.partial
    /\ 0 < last.ret /\ last.ret < last.count
    /\ last.r0 + last.ret > rb.mCapacityBytes
    /\ rb.mReadPosition = (last.r0 + last.ret) % rb.mCapacityBytes

\* C6: ReadVector (resp. WriteVector) returns at most two spans: the first
\* starts at the read (resp. write) cursor; the second, when non-empty, starts
\* at physical offset 0; neither extends past the physical end of the storage;
\* and the two lengths sum to BytesAvailableToRead() (resp. ...ToWrite()).
C6_Vectors ==
    LET v == last.vec
        wellFormed(cursor, available) ==
            /\ v[1].ptr = cursor
            /\ v[2].len > 0 => v[2].ptr = 0
            /\ v[1].ptr + v[1].len <= rb.mCapacityBytes
            /\ v[2].len > 0 => v[2].ptr + v[2].len <= rb.mCapacityBytes
            /\ v[1].len + v[2].len = available
    IN  /\ last.op = "ReadVector"
            => wellFormed(rb.mReadPosition, RingBuffer_BytesAvailableToRead(rb))
        /\ last.op = "WriteVector"
            => wellFormed(rb.mWritePosition, RingBuffer_BytesAvailableToWrite(rb))

\* C4: if the available amount is less than the requested count and
\* allowPartial is false, or if the available amount is 0, Read and Write of
\* the byte and of the frame ring buffer return 0 and leave both cursors, the
\* storage and the caller's buffer unchanged.
C4_RejectStep ==
    LET c == last'
        short(available) == available = 0 \/ (available < c.count /\ ~c.partial)
    IN  /\ (harness = "byte" /\ c.op = "Read" /\ c.count > 0
                /\ short(RingBuffer_BytesAvailableToRead(rb)))
           => (c.ret = 0 /\ rb' = rb /\ c.dst = FreshDst)
        /\ (harness = "byte" /\ c.op = "Write" /\ c.count > 0
                /\ short(RingBuffer_BytesAvailableToWrite(rb)))
           => (c.ret = 0 /\ rb' = rb)
        /\ (harness = "frame" /\ c.op = "Read" /\ c.count > 0
                /\ short(AudioRingBuffer_FramesAvailableToRead(arb)))
           => (c.ret = 0 /\ arb' = arb /\ c.dst = FreshABL)
        /\ (harness = "frame" /\ c.op = "Write" /\ c.count > 0
                /\ short(AudioRingBuffer_FramesAvailableToWrite(arb)))
           => (c.ret = 0 /\ arb' = arb)

C4_Reject == [][C4_RejectStep]_vars

\* a frame Write was refused although some, but not enough, space was free
C4_Witness ==
    /\ harness = "frame"
    /\ last.op = "Write" /\ ~last.null /\ ~last.partial
    /\ last.ret = 0
    /\ arb.mReadPointer = last.r0 /\ arb.mWritePointer = last.w0
    /\ 0 < AudioRingBuffer_FramesAvailableToWrite(arb)
    /\ AudioRingBuffer_FramesAvailableToWrite(arb) < last.count

\* C24: Peek returns the same count and the same bytes that Read with the
\* same arguments would return in the same state, and leaves the read cursor,
\* the write cursor and the storage unchanged; hence any number of Peeks
\* followed by a Read yields the same result as the Read alone.
C24_PeekStep ==
    LET c == last'
        read == RingBuffer_Read(rb, FreshDst, c.null, c.count, c.partial)
    IN  (harness = "byte" /\ c.op = "Peek")
            => /\ c.ret = read.ret
               /\ c.dst = read.dst
               /\ rb' = rb
               /\ \A a \in Args :
                    RingBuffer_Read(rb', FreshDst, a[3], a[1], a[2])
                        = RingBuffer_Read(rb, FreshDst, a[3], a[1], a[2])

C24_Peek == [][C24_PeekStep]_vars

\* a Peek of 2 or more bytes passed the physical end of the storage and left
\* the cursors where they were
C24_Witness ==
    /\ harness = "byte"
    /\ last.op = "Peek" /\ ~last.null
    /\ last.ret > 1
    /\ last.r0 + last.ret > rb.mCapacityBytes
    /\ rb.mReadPosition = last.r0
    /\ rb.mWritePosition = last.w0
    /\ SubSeq(last.dst, 1, last.ret) = RingContent(rb, last.r0, last.ret)

----------------------------------------------------------------------------
(* Claims about the frame ring buffer driven by one thread *)

\* C27: after a FrameRingBuffer Read that returns n > 0, the reported byte
\* size of every destination channel equals n * bytesPerFrame and the shared
\* read cursor has advanced by n modulo capacity; a Read that returns 0 leaves
\* every reported byte size unchanged.
C27_ReadSizesStep ==
    LET c == last'
    IN  (harness = "frame" /\ c.op = "Read")
            => /\ c.ret > 0
                    => /\ \A i \in 1 .. NumChannels :
                            c.dst[i].mDataByteSize = c.ret * BytesPerFrame
                       /\ arb'.mReadPointer
                              = (arb.mReadPointer + c.ret) % arb.mCapacityFrames
               /\ c.ret = 0
                    => /\ \A i \in 1 .. NumChannels :
                            c.dst[i].mDataByteSize = FreshABL[i].mDataByteSize
                       /\ arb'.mReadPointer = arb.mReadPointer

C27_ReadSizes == [][C27_ReadSizesStep]_vars

\* a partial Read across the physical end of the storage reported fewer
\* bytes than the caller's buffers hold, on every channel
C27_Witness ==
    /\ harness = "frame"
    /\ last.op = "Read" /\ ~last.null /\ last.partial
    /\ 0 < last.ret /\ last.ret < last.count
    /\ last.r0 + last.ret > arb.mCapacityFrames
    /\ \A i \in 1 .. NumChannels :
         /\ last.dst[i].mDataByteSize = last.ret * BytesPerFrame
         /\ last.dst[i].mDataByteSize < FreshABL[i].mDataByteSize
    /\ arb.mReadPointer = (last.r0 + last.ret) % arb.mCapacityFrames

\* C33: for a FrameRingBuffer with N channels and caller buffers of
\* sufficient size, after any sequence of Writes and Reads the frames Read
\* returns on channel c are exactly the frames previously written on channel
\* c, in FIFO order and frame-aligned across channels (frame k of every
\* channel comes from the same written frame), including when the transfer is
\* split at the physical wrap point.
C33_FrameFifoStep ==
    LET c == last'
    IN  (harness = "frame" /\ c.op = "Read" /\ c.ret > 0)
            => \A ch \in 1 .. NumChannels :
                 /\ \A k \in 0 .. c.ret - 1 : \A b \in 0 .. BytesPerFrame - 1 :
                      c.dst[ch].mData[k * BytesPerFrame + b + 1]
                          = FrameByte(rdTotal + k, ch, b)
                 /\ \A j \in c.ret * BytesPerFrame + 1 .. MaxCount * BytesPerFrame :
                      c.dst[ch].mData[j] = Poison

C33_FrameFifo == [][C33_FrameFifoStep]_vars

\* a Read of 2 or more frames, split at the physical end of the channel
\* buffers, returned on each channel the frames that followed the ones read
\* before it
C33_Witness ==
    /\ harness = "frame"
    /\ last.op = "Read" /\ ~last.null
    /\ last.ret > 1
    /\ last.r0 # 0
    /\ last.r0 + last.ret > arb.mCapacityFrames
    /\ \A ch \in 1 .. NumChannels : \A k \in 0 .. last.ret - 1 :
         last.dst[ch].mData[k * BytesPerFrame + 1]
             = FrameByte(rdTotal + ByteModulus - last.ret + k, ch, 0)

----------------------------------------------------------------------------
(* Two threads on one SFB::RingBuffer: a producer calling Write and a        *)
(* consumer calling Read.  A step is one atomic load or store of a cursor    *)
(* (with the thread-local computation that follows it) or the copy of one    *)
(* byte of a std::memcpy.                                                    *)

\* the std::memcpy calls of a transfer of n bytes at ring position pos, each
\* as <<offset in the storage, offset in the caller's buffer, length>>
CopySegments(pos, n, capacity) ==
    IF pos + n > capacity
    THEN << <<pos, 0, capacity - pos>>, <<0, capacity - pos, n - (capacity - pos)>> >>
    ELSE << <<pos, 0, n>> >>

\* a thread entering a call with the given arguments and caller's buffer
Entered(count, partial, buf) ==
    [pc |-> "loadWrite", ret |-> 0, count |-> count, partial |-> partial, buf |-> buf,
     writePosition |-> 0, readPosition |-> 0, n |-> 0, seg |-> 0, i |-> 0]

\* the thread t after copying one more byte of its transfer of t.n bytes at pos
AfterByte(t, pos, capacity) ==
    LET segs == CopySegments(pos, t.n, capacity)
    IN  IF t.i + 1 < segs[t.seg][3]
        THEN [t EXCEPT !.i = @ + 1]
        ELSE IF t.seg < Len(segs)
             THEN [t EXCEPT !.seg = @ + 1, !.i = 0]
             ELSE [t EXCEPT !.pc = "store"]

InitSPSC ==
    /\ rb = RingBuffer_Allocate(RingBuffer_Init, RequestedCapacityBytes, TRUE).obj
    /\ arb = AudioRingBuffer_Init
    /\ crb = CARingBuffer_Init
    /\ published = {}
    /\ harness = "threads"
    /\ wrTotal = 0
    /\ rdTotal = 0
    /\ last = NoCall
    /\ prev = NoCall
    /\ prod = Idle(0)
    /\ cons = Idle(0)
    /\ written = <<>>
    /\ readOut = <<>>

\* Write is called: the null and zero-count checks
ProducerCall ==
    /\ prod.pc = "idle"
    /\ Len(written) < MaxTotal
    /\ \E a \in Args :
         prod' = IF a[3] \/ a[1] = 0
                 THEN Idle(0)
                 ELSE Entered(a[1], a[2], Stream(Len(written), a[1]))
    /\ UNCHANGED <<rb, cons, written, readOut>>

\* mWritePosition.load(std::memory_order_acquire)
ProducerLoadWrite ==
    /\ prod.pc = "loadWrite"
    /\ prod' = [prod EXCEPT !.pc = "loadRead", !.writePosition = rb.mWritePosition]
    /\ UNCHANGED <<rb, cons, written, readOut>>

\* mReadPosition.load(std::memory_order_acquire), bytesAvailable and the policy
ProducerLoadRead ==
    /\ prod.pc = "loadRead"
    /\ LET bytesAvailable == WritableBytes(prod.writePosition, rb.mReadPosition,
                                           rb.mCapacityBytes, rb.mCapacityBytesMask)
       IN  prod' = IF Rejects(bytesAvailable, prod.count, prod.partial)
                   THEN Idle(0)
                   ELSE [prod EXCEPT !.pc = "copy",
                                     !.readPosition = rb.mReadPosition,
                                     !.n = Min(bytesAvailable, prod.count),
                                     !.seg = 1, !.i = 0]
    /\ UNCHANGED <<rb, cons, written, readOut>>

\* one byte of the std::memcpy calls into the storage
ProducerCopy ==
    /\ prod.pc = "copy"
    /\ LET sg == CopySegments(prod.writePosition, prod.n, rb.mCapacityBytes)[prod.seg]
       IN  rb' = [rb EXCEPT !.mBuffer[sg[1] + prod.i] = prod.buf[sg[2] + prod.i + 1]]
    /\ prod' = AfterByte(prod, prod.writePosition, rb.mCapacityBytes)
    /\ UNCHANGED <<cons, written, readOut>>

\* mWritePosition.store(..., std::memory_order_release) and the return
ProducerStore ==
    /\ prod.pc = "store"
    /\ rb' = [rb EXCEPT !.mWritePosition =
                 BitAnd(U32(prod.writePosition + prod.n), rb.mCapacityBytesMask)]
    /\ written' = written \o SubSeq(prod.buf, 1, prod.n)
    /\ prod' = Idle(prod.n)
    /\ UNCHANGED <<cons, readOut>>

\* Read is called: the null and zero-count checks
ConsumerCall ==
    /\ cons.pc = "idle"
    /\ \E a \in Args :
         cons' = IF a[3] \/ a[1] = 0
                 THEN Idle(0)
                 ELSE Entered(a[1], a[2], FreshDst)
    /\ UNCHANGED <<rb, prod, written, readOut>>

\* mWritePosition.load(std::memory_order_acquire)
ConsumerLoadWrite ==
    /\ cons.pc = "loadWrite"
    /\ cons' = [cons EXCEPT !.pc = "loadRead", !.writePosition = rb.mWritePosition]
    /\ UNCHANGED <<rb, prod, written, readOut>>

\* mReadPosition.load(std::memory_order_acquire), bytesAvailable and the policy
ConsumerLoadRead ==
    /\ cons.pc = "loadRead"
    /\ LET bytesAvailable == ReadableBytes(cons.writePosition, rb.mReadPosition,
                                           rb.mCapacityBytes, rb.mCapacityBytesMask)
       IN  cons' = IF Rejects(bytesAvailable, cons.count, cons.partial)
                   THEN Idle(0)
                   ELSE [cons EXCEPT !.pc = "copy",
                                     !.readPosition = rb.mReadPosition,
                                     !.n = Min(bytesAvailable, cons.count),
                                     !.seg = 1, !.i = 0]
    /\ UNCHANGED <<rb, prod, written, readOut>>

\* one byte of the std::memcpy calls out of the storage
ConsumerCopy ==
    /\ cons.pc = "copy"
    /\ LET sg == CopySegments(cons.readPosition, cons.n, rb.mCapacityBytes)[cons.seg]
       IN  cons' = [AfterByte(cons, cons.readPosition, rb.mCapacityBytes) EXCEPT
                       !.buf[sg[2] + cons.i + 1] = rb.mBuffer[sg[1] + cons.i]]
    /\ UNCHANGED <<rb, prod, written, readOut>>

\* mReadPosition.store(..., std::memory_order_release) and the return
ConsumerStore ==
    /\ cons.pc = "store"
    /\ rb' = [rb EXCEPT !.mReadPosition =
                 BitAnd(U32(cons.readPosition + cons.n), rb.mCapacityBytesMask)]
    /\ readOut' = readOut \o SubSeq(cons.buf, 1, cons.n)
    /\ cons' = Idle(cons.n)
    /\ UNCHANGED <<prod, written>>

NextSPSC ==
    \/ (ProducerCall /\ UNCHANGED <<arb, crb, published, callVars>>)
    \/ (ProducerLoadWrite /\ UNCHANGED <<arb, crb, published, callVars>>)
    \/ (ProducerLoadRead /\ UNCHANGED <<arb, crb, published, callVars>>)
    \/ (ProducerCopy /\ UNCHANGED <<arb, crb, published, callVars>>)
    \/ (ProducerStore /\ UNCHANGED <<arb, crb, published, callVars>>)
    \/ (ConsumerCall /\ UNCHANGED <<arb, crb, published, callVars>>)
    \/ (ConsumerLoadWrite /\ UNCHANGED <<arb, crb, published, callVars>>)
    \/ (ConsumerLoadRead /\ UNCHANGED <<arb, crb, published, callVars>>)
    \/ (ConsumerCopy /\ UNCHANGED <<arb, crb, published, callVars>>)
    \/ (ConsumerStore /\ UNCHANGED <<arb, crb, published, callVars>>)

SpecSPSC == InitSPSC /\ [][NextSPSC]_vars

IsPrefix(s, t) == Len(s) <= Len(t) /\ SubSeq(t, 1, Len(s)) = s

\* C1: with one producer thread calling Write and one consumer thread calling
\* Read, under every interleaving of their atomic steps, the concatenation of
\* the bytes returned by the Reads is a prefix of the concatenation of the
\* bytes accepted by the Writes.
C1_ReadsPrefixOfWrites == IsPrefix(readOut, written)

\* more bytes than the storage holds were read, the last Read having passed the
\* physical end of the storage while the producer was copying
C1_Witness ==
    /\ Len(readOut) > rb.mCapacityBytes
    /\ IsPrefix(readOut, written)
    /\ cons.pc = "idle" /\ cons.ret > 1
    /\ rb.mReadPosition < cons.ret
    /\ prod.pc = "copy"

\* neither thread is inside a call
Quiescent == prod.pc = "idle" /\ cons.pc = "idle"

C29_Count ==
    /\ RingBuffer_BytesAvailableToRead(rb) = Len(written) - Len(readOut)
    /\ RingBuffer_BytesAvailableToRead(rb) <= rb.mCapacityBytes - 1
    /\ Quiescent
         => RingBuffer_BytesAvailableToRead(rb) + RingBuffer_BytesAvailableToWrite(rb)
                = rb.mCapacityBytes - 1

C29_WriteStep ==
    (prod.pc = "store" /\ prod'.pc = "idle")
        => /\ prod.n > 0
           /\ rb'.mWritePosition # rb.mWritePosition
           /\ rb'.mWritePosition # rb'.mReadPosition
           /\ RingBuffer_BytesAvailableToRead(rb') > 0

\* C29: for an allocated ByteRingBuffer driven only by Read and Write
\* (single-threaded or one producer and one consumer thread),
\* BytesAvailableToRead() in a quiescent state equals the total bytes accepted
\* by Writes minus the total bytes returned by Reads and never exceeds
\* capacity - 1; a Write never advances the write cursor onto the read cursor,
\* so a full buffer is never mistaken for an empty one.
C29_Sentinel == []C29_Count /\ [][C29_WriteStep]_vars

\* both threads are outside a call and the buffer is full after bytes were
\* read: capacity - 1 bytes are readable, none writable, and the write cursor
\* is one place behind the read cursor, which has moved
C29_Witness ==
    /\ Quiescent
    /\ Len(readOut) > 0
    /\ Len(written) - Len(readOut) = rb.mCapacityBytes - 1
    /\ RingBuffer_BytesAvailableToRead(rb) = rb.mCapacityBytes - 1
    /\ RingBuffer_BytesAvailableToWrite(rb) = 0
    /\ rb.mReadPosition # 0
    /\ (rb.mWritePosition + 1) % rb.mCapacityBytes = rb.mReadPosition

----------------------------------------------------------------------------
(* One thread writing to an SFB::CARingBuffer *)

\* byte b of channel c of the frame the program supplies for sample time t (never 0)
TimedByte(t, c, b) == (t * NumChannels + (c - 1)) * BytesPerFrame + b + 1

\* the buffer list holding the frames for the times [t, t + frameCount)
TimedSource(t, frameCount) ==
    [c \in 1 .. NumChannels |->
        AudioBuffer([k \in 1 .. frameCount * BytesPerFrame |->
                        TimedByte(t + (k - 1) \div BytesPerFrame, c, (k - 1) % BytesPerFrame)],
                    frameCount * BytesPerFrame)]

\* the record of a completed CARingBuffer call: its arguments (count, time,
\* null, src) and its results (ret, and for GetTimeBounds the bounds)
TimedCall(op, count, time, null, ret, src, startTime, endTime) ==
    [op |-> op, count |-> count, time |-> time, null |-> null, ret |-> ret,
     src |-> src, startTime |-> startTime, endTime |-> endTime]

\* the <<frameCount, startWrite, null buffer list>> arguments of the writing
\* program: every accepted count at every time up to MaxTime, and one call
\* for each of the rejections
WriteArgs(capacity) ==
    {<<n, t, FALSE>> : n \in 1 .. capacity, t \in 0 .. MaxTime}
        \cup {<<0, 0, FALSE>>, <<capacity + 1, 0, FALSE>>, <<1, -1, FALSE>>, <<1, 0, TRUE>>}

InitCAWrite ==
    /\ rb = RingBuffer_Init
    /\ arb = AudioRingBuffer_Init
    /\ crb = CARingBuffer_Allocate(CARingBuffer_Init, TheFormat, RequestedCapacityCA, TRUE).obj
    /\ published = {}
    /\ harness = "cawrite"
    /\ wrTotal = 0
    /\ rdTotal = 0
    /\ last = NoCall
    /\ prev = NoCall
    /\ prod = Idle(0)
    /\ cons = Idle(0)
    /\ written = <<>>
    /\ readOut = <<>>

CAWrite ==
    /\ crb.mTimeBoundsQueueCounter < MaxPublications
    /\ \E a \in WriteArgs(crb.mCapacityFrames) :
         LET src == TimedSource(a[2], a[1])
             res == CARingBuffer_Write(crb, src, a[3], a[1], a[2])
         IN  /\ crb' = res.obj
             /\ last' = TimedCall("Write", a[1], a[2], a[3], res.ret, src, 0, 0)
    /\ UNCHANGED <<rb, arb, harness, wrTotal, rdTotal, prev, threadVars>>

CAGetTimeBounds ==
    /\ LET res == CARingBuffer_GetTimeBounds(crb)
       IN  last' = TimedCall("GetTimeBounds", 0, 0, FALSE, res.ret, <<>>,
                             res.startTime, res.endTime)
    /\ UNCHANGED <<rb, arb, crb, harness, wrTotal, rdTotal, prev, threadVars>>

NextCAWrite ==
    \/ CAWrite
    \/ CAGetTimeBounds

SpecCAWrite == InitCAWrite /\ [][NextCAWrite]_vars

C10_OverrunStep ==
    LET c == last'
        counter == crb.mTimeBoundsQueueCounter
        currentStart == CARingBuffer_StartTime(crb)
        currentEnd == CARingBuffer_EndTime(crb)
        endWrite == c.time + c.count
        newStart == endWrite - crb.mCapacityFrames
        got == CARingBuffer_GetTimeBounds(crb')
    IN  ( /\ c.op = "Write" /\ ~c.null
          /\ c.count > 0 /\ c.count <= crb.mCapacityFrames
          /\ c.time >= currentEnd
          /\ endWrite - currentStart > crb.mCapacityFrames )
        => /\ c.ret
           /\ crb'.mTimeBoundsQueueCounter = counter + 2
           /\ crb'.mTimeBoundsQueue[(counter + 1) % sTimeBoundsQueueSize]
                  = TimeBounds(newStart, Max(newStart, currentEnd), counter + 1)
           /\ crb'.mTimeBoundsQueue[(counter + 2) % sTimeBoundsQueueSize]
                  = TimeBounds(newStart, endWrite, counter + 2)
           /\ got = [ret |-> TRUE, startTime |-> newStart, endTime |-> endWrite]
           /\ ( /\ crb.mCapacityFrames = 8 /\ currentStart = 0 /\ currentEnd = 4
                /\ c.time = 4 /\ c.count = 6 )
              => (got.startTime = 2 /\ got.endTime = 10)

C10_Overrun == [][C10_OverrunStep]_vars

\* the scenario: capacity 8, Write of 4 frames at 0, Write of 6 frames at 4
C10_Witness ==
    /\ crb.mCapacityFrames = 8
    /\ last.op = "Write" /\ last.ret /\ last.count = 6 /\ last.time = 4
    /\ crb.mTimeBoundsQueueCounter = 3
    /\ crb.mTimeBoundsQueue[1] = TimeBounds(0, 4, 1)
    /\ crb.mTimeBoundsQueue[2] = TimeBounds(2, 4, 2)
    /\ crb.mTimeBoundsQueue[3] = TimeBounds(2, 10, 3)
    /\ CARingBuffer_GetTimeBounds(crb) = [ret |-> TRUE, startTime |-> 2, endTime |-> 10]

----------------------------------------------------------------------------
(* One thread writing to an SFB::CARingBuffer and then reading from it: the
   program makes Writes and ends with one Read, which leaves the object as it
   is *)

\* the caller's buffer list of a Read: room for the given number of frames in
\* every channel, mDataByteSize set to that room
CallerABL(frames) ==
    [c \in 1 .. NumChannels |->
        AudioBuffer([k \in 1 .. frames * BytesPerFrame |-> Poison], frames * BytesPerFrame)]

\* the record of a completed CARingBuffer::Read: its arguments (count, time,
\* null, room: the frames its buffer list has room for) and its results
TimedRead(count, time, null, room, ret, abl) ==
    [op |-> "Read", count |-> count, time |-> time, null |-> null, room |-> room,
     ret |-> ret, abl |-> abl]

\* the <<frameCount, startRead, null buffer list, room>> arguments of the
\* reading program: every accepted count at every time up to the latest end
\* bound, with room for just the frames asked for or for a full capacity, and
\* one call for frameCount 0 and for each of the rejections
ReadArgs(capacity) ==
    UNION {{<<n, t, FALSE, n>>, <<n, t, FALSE, capacity>>} :
               n \in 1 .. capacity, t \in 0 .. MaxTime + capacity}
        \cup {<<0, 0, FALSE, capacity>>, <<capacity + 1, 0, FALSE, capacity + 1>>,
              <<1, -1, FALSE, 1>>, <<1, 0, TRUE, 1>>}

CARead ==
    /\ \E a \in ReadArgs(crb.mCapacityFrames) :
         LET res == CARingBuffer_Read(crb, CallerABL(a[4]), a[3], a[1], a[2])
         IN  last' = TimedRead(a[1], a[2], a[3], a[4], res.ret, res.abl)
    /\ harness' = "done"
    /\ UNCHANGED <<rb, arb, crb, wrTotal, rdTotal, prev, threadVars>>

\* frame i (from 0) of channel c of a buffer list
FrameOf(abl, c, i) == [b \in 0 .. BytesPerFrame - 1 |-> abl[c].mData[i * BytesPerFrame + b + 1]]

\* the frame the program supplies for sample time t in channel c
TimedFrame(t, c) == [b \in 0 .. BytesPerFrame - 1 |-> TimedByte(t, c, b)]

ZeroFrame == [b \in 0 .. BytesPerFrame - 1 |-> 0]

\* the Writes of the scenario, as <<frameCount, startWrite>>
ScenarioWrites == <<<<4, 0>>, <<6, 4>>>>

InitCAScenario ==
    /\ rb = RingBuffer_Init
    /\ arb = AudioRingBuffer_Init
    /\ crb = CARingBuffer_Allocate(CARingBuffer_Init, TheFormat, RequestedCapacityCA, TRUE).obj
    /\ published = {}
    /\ harness = "scenario"
    /\ wrTotal = 0
    /\ rdTotal = 0
    /\ last = NoCall
    /\ prev = NoCall
    /\ prod = Idle(0)
    /\ cons = Idle(0)
    /\ written = <<>>
    /\ readOut = <<>>

\* the next Write of the scenario; written lists the Writes made
ScenarioWrite ==
    /\ Len(written) < Len(ScenarioWrites)
    /\ LET a == ScenarioWrites[Len(written) + 1]
           src == TimedSource(a[2], a[1])
           res == CARingBuffer_Write(crb, src, FALSE, a[1], a[2])
       IN  /\ crb' = res.obj
           /\ last' = TimedCall("Write", a[1], a[2], FALSE, res.ret, src, 0, 0)
           /\ written' = Append(written, a)
    /\ UNCHANGED <<rb, arb, harness, wrTotal, rdTotal, prev, prod, cons, readOut, published>>

NextCAScenario ==
    \/ (harness = "scenario" /\ ScenarioWrite)
    \/ (harness = "scenario" /\ CAGetTimeBounds)
    \/ (harness = "scenario" /\ CARead)

SpecCAScenario == InitCAScenario /\ [][NextCAScenario]_vars

\* the Read of 4 frames at time 0 after both Writes of the scenario
C11_ScenarioRead ==
    /\ crb.mCapacityFrames = 8
    /\ written = ScenarioWrites
    /\ CARingBuffer_GetTimeBounds(crb) = [ret |-> TRUE, startTime |-> 2, endTime |-> 10]
    /\ last.op = "Read" /\ ~last.null /\ last.count = 4 /\ last.time = 0

\* C11 as stated: in the scenario (capacity requested 5 rounded to 8, Write of
\* 4 frames at 0, Write of 6 frames at 4, bounds (2,10)) the Read of 4 frames
\* at time 0 returns true, its output is all zero and it reports 0 valid
\* frames.
C11_ReadAllZero ==
    C11_ScenarioRead
        => /\ last.ret
           /\ \A c \in 1 .. NumChannels :
                /\ \A i \in 0 .. 3 : FrameOf(last.abl, c, i) = ZeroFrame
                /\ last.abl[c].mDataByteSize = 0

\* C11 amended: in the scenario the Read of 4 frames at time 0 returns true
\* with the frames for the times 0 and 1, which are before the start bound,
\* zero, the frames for the times 2 and 3 as written, and 2 valid frames
\* reported on every channel.
C11_ReadOverlap ==
    C11_ScenarioRead
        => /\ last.ret
           /\ \A c \in 1 .. NumChannels :
                /\ \A i \in 0 .. 1 : FrameOf(last.abl, c, i) = ZeroFrame
                /\ \A i \in 2 .. 3 : FrameOf(last.abl, c, i) = TimedFrame(i, c)
                /\ last.abl[c].mDataByteSize = 2 * BytesPerFrame

C11_Witness == C11_ScenarioRead /\ last.ret /\ last.room = 4

InitCARead ==
    /\ rb = RingBuffer_Init
    /\ arb = AudioRingBuffer_Init
    /\ crb = CARingBuffer_Allocate(CARingBuffer_Init, TheFormat, RequestedCapacityFrames, TRUE).obj
    /\ published = {}
    /\ harness = "caread"
    /\ wrTotal = 0
    /\ rdTotal = 0
    /\ last = NoCall
    /\ prev = NoCall
    /\ prod = Idle(0)
    /\ cons = Idle(0)
    /\ written = <<>>
    /\ readOut = <<>>

NextCARead ==
    \/ (harness = "caread" /\ CAWrite)
    \/ (harness = "caread" /\ CAGetTimeBounds)
    \/ (harness = "caread" /\ CARead)

SpecCARead == InitCARead /\ [][NextCARead]_vars

\* the frame the channel buffers hold in the place of sample time t, channel c
StoredFrame(o, t, c) ==
    [b \in 0 .. BytesPerFrame - 1 |->
        o.mBuffers[c][(t % o.mCapacityFrames) * BytesPerFrame + b]]

\* the last call was a Read that passed the argument checks
ReadAccepted ==
    /\ last.op = "Read" /\ ~last.null
    /\ last.count > 0 /\ last.count <= crb.mCapacityFrames
    /\ last.time >= 0

\* the start and the end of the part of the last Read's range inside the bounds
OverlapStart == Max(last.time, CARingBuffer_StartTime(crb))

OverlapEnd == Min(last.time + last.count, CARingBuffer_EndTime(crb))

\* C12: a Read (0 < frameCount <= capacityFrames, startReadTime >= 0) whose
\* range lies entirely before the published startTime or entirely at or after
\* the published endTime returns true and fills all frameCount output frames
\* of every channel with zero.
C12_OutsideReadsZero ==
    ( /\ ReadAccepted
      /\ \/ last.time + last.count <= CARingBuffer_StartTime(crb)
         \/ last.time >= CARingBuffer_EndTime(crb) )
        => /\ last.ret
           /\ \A c \in 1 .. NumChannels :
                \A i \in 0 .. last.count - 1 : FrameOf(last.abl, c, i) = ZeroFrame

\* a Read of evicted frames: the range ends at or before a start bound that
\* an overrunning Write has advanced
C12_Witness ==
    /\ ReadAccepted /\ last.ret
    /\ last.count > 1
    /\ CARingBuffer_StartTime(crb) > 0
    /\ CARingBuffer_EndTime(crb) > CARingBuffer_StartTime(crb)
    /\ last.time + last.count <= CARingBuffer_StartTime(crb)
    /\ \A c \in 1 .. NumChannels :
         \A i \in 0 .. last.count - 1 : FrameOf(last.abl, c, i) = ZeroFrame

\* C13: a Read whose range overlaps the published [startTime, endTime)
\* returns true with output frame i holding the stored frame for time
\* startReadTime + i (the frame written for that time, or zero for a skipped
\* time) when that time is inside the bounds and zero otherwise, and the byte
\* size of every channel is overlapLength * bytesPerFrame.
C13_OverlapReads ==
    (ReadAccepted /\ OverlapStart < OverlapEnd)
        => /\ last.ret
           /\ \A c \in 1 .. NumChannels :
                /\ last.abl[c].mDataByteSize = (OverlapEnd - OverlapStart) * BytesPerFrame
                /\ \A i \in 0 .. last.count - 1 :
                     LET t == last.time + i
                     IN  IF OverlapStart <= t /\ t < OverlapEnd
                         THEN /\ FrameOf(last.abl, c, i) = StoredFrame(crb, t, c)
                              /\ StoredFrame(crb, t, c) \in {TimedFrame(t, c), ZeroFrame}
                         ELSE FrameOf(last.abl, c, i) = ZeroFrame

\* a Read with frames before the start bound, written frames across the
\* physical wrap, and frames after the end bound
C13_Witness ==
    /\ ReadAccepted /\ last.ret
    /\ last.time < OverlapStart
    /\ OverlapEnd < last.time + last.count
    /\ OverlapEnd - OverlapStart >= 2
    /\ OverlapStart % crb.mCapacityFrames > (OverlapEnd - 1) % crb.mCapacityFrames
    /\ \A c \in 1 .. NumChannels :
         \A t \in OverlapStart .. OverlapEnd - 1 :
            FrameOf(last.abl, c, t - last.time) = TimedFrame(t, c)

\* C14: a Read with frameCount > 0 that returns true and whose range does not
\* overlap the published bounds reports 0 valid frames: the byte size of every
\* output channel is 0 after the call, whatever it was before.
C14_OutsideReadsReportZero ==
    (ReadAccepted /\ last.ret /\ OverlapStart >= OverlapEnd)
        => \A c \in 1 .. NumChannels : last.abl[c].mDataByteSize = 0

\* C16: when a Write starts strictly after the end bound curEnd in effect
\* after its eviction step, then once it has returned every sample time t in
\* [curEnd, startTime) reads back as zero on every channel, for every
\* alignment of the gap and for the first Write after Allocate too.
C16_GapStep ==
    LET c == last'
        currentStart == CARingBuffer_StartTime(crb)
        currentEnd == CARingBuffer_EndTime(crb)
        endWrite == c.time + c.count
        curEnd == IF c.time < currentEnd
                  THEN c.time
                  ELSE IF endWrite - currentStart <= crb.mCapacityFrames
                  THEN currentEnd
                  ELSE Max(endWrite - crb.mCapacityFrames, currentEnd)
    IN  ( /\ c.op = "Write" /\ ~c.null
          /\ c.count > 0 /\ c.count <= crb.mCapacityFrames
          /\ c.time >= 0
          /\ curEnd < c.time )
        => /\ c.ret
           /\ \A t \in curEnd .. c.time - 1 :
                LET res == CARingBuffer_Read(crb', CallerABL(1), FALSE, 1, t)
                IN  /\ res.ret
                    /\ \A ch \in 1 .. NumChannels :
                         /\ FrameOf(res.abl, ch, 0) = ZeroFrame
                         /\ res.abl[ch].mDataByteSize = BytesPerFrame
                         /\ StoredFrame(crb', t, ch) = ZeroFrame

C16_Gap == [][C16_GapStep]_vars

\* a Write that skipped two sample times across the physical wrap, in places
\* that held written frames before: the frame before the gap and the frame
\* after it are as written, the two between are zero
C16_Witness ==
    /\ last.op = "Write" /\ last.ret /\ last.count > 0
    /\ last.time >= crb.mCapacityFrames + 2
    /\ last.time % crb.mCapacityFrames = 2
    /\ CARingBuffer_StartTime(crb) <= last.time - 3
    /\ \A ch \in 1 .. NumChannels :
         /\ StoredFrame(crb, last.time - 3, ch) = TimedFrame(last.time - 3, ch)
         /\ StoredFrame(crb, last.time - 2, ch) = ZeroFrame
         /\ StoredFrame(crb, last.time - 1, ch) = ZeroFrame
         /\ StoredFrame(crb, last.time, ch) = TimedFrame(last.time, ch)

\* C19: a Write or Read called with frameCount > capacityFrames, a negative
\* start time, or a null buffer list (and frameCount > 0) returns false and is
\* a no-op: the time bounds, the publication counter, the storage and the
\* caller's buffers are unchanged.
C19_RejectStep ==
    LET c == last'
    IN  ( /\ c.op \in {"Write", "Read"}
          /\ c.count > 0
          /\ (c.count > crb.mCapacityFrames \/ c.time < 0 \/ c.null) )
        => /\ ~c.ret
           /\ crb' = crb
           /\ CARingBuffer_GetTimeBounds(crb') = CARingBuffer_GetTimeBounds(crb)
           /\ (c.op = "Read" /\ ~c.null) => c.abl = CallerABL(c.room)
           /\ c.op = "Write" => c.src = TimedSource(c.time, c.count)

C19_Reject == [][C19_RejectStep]_vars

\* a Read of more frames than the capacity, after a Write, was refused and
\* left the caller's buffer list as it was
C19_Witness ==
    /\ last.op = "Read" /\ ~last.null
    /\ last.count > crb.mCapacityFrames
    /\ ~last.ret
    /\ last.abl = CallerABL(last.room)
    /\ crb.mTimeBoundsQueueCounter > 0

----------------------------------------------------------------------------
(* Two threads on one SFB::CARingBuffer: the writer calls Write with
   consecutive times, the reader calls GetTimeBounds and Read.  A step is one
   access to the time bounds queue or its counter, the whole copy into the
   channel buffers, or the whole copy out of them. *)

\* the writer thread in no call, after n Writes of which the last ended at time
WriterIdle(n, time) ==
    [pc |-> "idle", n |-> n, time |-> time, startWrite |-> 0, endWrite |-> 0, counter0 |-> 0,
     startTime |-> 0, endTime |-> 0, nextCounter |-> 0, final |-> FALSE]

\* the writer thread entering SetTimeBounds(startTime, endTime): nextCounter loaded
EnterSetTimeBounds(w, o, startTime, endTime, final) ==
    [w EXCEPT !.pc = "setStartTime", !.startTime = startTime, !.endTime = endTime,
              !.nextCounter = o.mTimeBoundsQueueCounter + 1, !.final = final]

\* the reader thread in no call; op, ret, startTime, endTime, startRead0,
\* startRead, endRead and abl are of its last call
ReaderIdle(op, ret, startTime, endTime, startRead0, startRead, endRead, abl) ==
    [pc |-> "idle", op |-> op, ret |-> ret, i |-> 0, currentCounter |-> 0,
     first |-> "none", startTime |-> startTime, endTime |-> endTime,
     startRead0 |-> startRead0, startRead |-> startRead, endRead |-> endRead, abl |-> abl]

\* the reader thread entering GetTimeBounds for the call op
EnterGetTimeBounds(op, startRead0) ==
    [ReaderIdle(op, FALSE, 0, 0, startRead0, 0, 0, <<>>) EXCEPT !.pc = "loadCounter"]

InitCAThreads ==
    /\ rb = RingBuffer_Init
    /\ arb = AudioRingBuffer_Init
    /\ crb = CARingBuffer_Allocate(CARingBuffer_Init, TheFormat, RequestedCapacityFrames, TRUE).obj
    /\ published = {<<0, 0>>}
    /\ harness = "cathreads"
    /\ wrTotal = 0
    /\ rdTotal = 0
    /\ last = NoCall
    /\ prev = NoCall
    /\ prod = WriterIdle(0, 0)
    /\ cons = ReaderIdle("none", FALSE, 0, 0, 0, 0, 0, <<>>)
    /\ written = <<>>
    /\ readOut = <<>>

\* WriterEnter publishing (startWrite, EndTime()) when the Write goes backwards
WriterEnter_KeepEnd(w, o, frameCount, startWrite) ==
    LET endWrite == startWrite + frameCount
        e == [w EXCEPT !.startWrite = startWrite, !.endWrite = endWrite,
                       !.counter0 = o.mTimeBoundsQueueCounter]
    IN  IF frameCount > o.mCapacityFrames
        THEN WriterIdle(w.n + 1, w.time)
        ELSE IF startWrite < CARingBuffer_EndTime(o)
        THEN EnterSetTimeBounds(e, o, startWrite, CARingBuffer_EndTime(o), FALSE)
        ELSE IF endWrite - CARingBuffer_StartTime(o) <= o.mCapacityFrames
        THEN [e EXCEPT !.pc = "store"]
        ELSE LET newStart == endWrite - o.mCapacityFrames
             IN  EnterSetTimeBounds(e, o, newStart, Max(newStart, CARingBuffer_EndTime(o)), FALSE)

\* the writer thread w after Write(frameCount > 0 frames at startWrite >= 0)
\* ran up to its first SetTimeBounds, or up to the copy when it makes none;
\* counter0 is the shared counter at the call
WriterEnter(w, o, frameCount, startWrite) ==
    LET endWrite == startWrite + frameCount
        e == [w EXCEPT !.startWrite = startWrite, !.endWrite = endWrite,
                       !.counter0 = o.mTimeBoundsQueueCounter]
    IN  IF frameCount > o.mCapacityFrames
        THEN WriterIdle(w.n + 1, w.time)
        ELSE IF startWrite < CARingBuffer_EndTime(o)
        THEN EnterSetTimeBounds(e, o, startWrite, startWrite, FALSE)
        ELSE IF endWrite - CARingBuffer_StartTime(o) <= o.mCapacityFrames
        THEN [e EXCEPT !.pc = "store"]
        ELSE LET newStart == endWrite - o.mCapacityFrames
             IN  EnterSetTimeBounds(e, o, newStart, Max(newStart, CARingBuffer_EndTime(o)), FALSE)

\* the writer thread calls Write with the StreamFrames frames after its last Write
WriterCall ==
    /\ prod.pc = "idle"
    /\ prod.n < MaxStreamWrites
    /\ prod' = WriterEnter(prod, crb, StreamFrames, prod.time)
    /\ UNCHANGED <<crb, cons, published>>

\* WriterSetStartTime storing to the slot the shared counter selects
WriterSetStartTime_CurrentSlot ==
    /\ prod.pc = "setStartTime"
    /\ crb' = [crb EXCEPT !.mTimeBoundsQueue[BitAnd(crb.mTimeBoundsQueueCounter,
                                                   sTimeBoundsQueueMask)]
                              .mStartTime = prod.startTime]
    /\ prod' = [prod EXCEPT !.pc = "setEndTime"]
    /\ UNCHANGED <<cons, published>>

WriterSetStartTime ==
    /\ prod.pc = "setStartTime"
    /\ crb' = [crb EXCEPT !.mTimeBoundsQueue[BitAnd(prod.nextCounter, sTimeBoundsQueueMask)]
                              .mStartTime = prod.startTime]
    /\ prod' = [prod EXCEPT !.pc = "setEndTime"]
    /\ UNCHANGED <<cons, published>>

WriterSetEndTime ==
    /\ prod.pc = "setEndTime"
    /\ crb' = [crb EXCEPT !.mTimeBoundsQueue[BitAnd(prod.nextCounter, sTimeBoundsQueueMask)]
                              .mEndTime = prod.endTime]
    /\ prod' = [prod EXCEPT !.pc = "setUpdateCounter"]
    /\ UNCHANGED <<cons, published>>

\* WriterSetUpdateCounter storing the index of the slot as its update counter
WriterSetUpdateCounter_Index ==
    /\ prod.pc = "setUpdateCounter"
    /\ crb' = [crb EXCEPT !.mTimeBoundsQueue[BitAnd(prod.nextCounter, sTimeBoundsQueueMask)]
                              .mUpdateCounter = BitAnd(prod.nextCounter, sTimeBoundsQueueMask)]
    /\ prod' = [prod EXCEPT !.pc = "setCounter"]
    /\ UNCHANGED <<cons, published>>

WriterSetUpdateCounter ==
    /\ prod.pc = "setUpdateCounter"
    /\ crb' = [crb EXCEPT !.mTimeBoundsQueue[BitAnd(prod.nextCounter, sTimeBoundsQueueMask)]
                              .mUpdateCounter = prod.nextCounter]
    /\ prod' = [prod EXCEPT !.pc = "setCounter"]
    /\ UNCHANGED <<cons, published>>

\* the store of the shared counter; SetTimeBounds returns, and Write with it
\* when this was its last SetTimeBounds
WriterSetCounter ==
    /\ prod.pc = "setCounter"
    /\ crb' = [crb EXCEPT !.mTimeBoundsQueueCounter = prod.nextCounter]
    /\ published' = published \cup {<<prod.startTime, prod.endTime>>}
    /\ prod' = IF prod.final
               THEN WriterIdle(prod.n + 1, prod.endWrite)
               ELSE [prod EXCEPT !.pc = "store"]
    /\ UNCHANGED cons

\* the zeroing of the skipped frames and the copy of the written ones, then
\* the entry of the last SetTimeBounds
WriterStore ==
    /\ prod.pc = "store"
    /\ LET startWrite == prod.startWrite
           stored == [crb EXCEPT !.mBuffers =
                         CARingBuffer_Store(crb, CARingBuffer_ZeroGap(crb, startWrite),
                                            TimedSource(startWrite, prod.endWrite - startWrite),
                                            startWrite, prod.endWrite)]
       IN  /\ crb' = stored
           /\ prod' = EnterSetTimeBounds(prod, stored, CARingBuffer_StartTime(stored),
                                         prod.endWrite, TRUE)
    /\ UNCHANGED <<cons, published>>

ReaderCallGetTimeBounds ==
    /\ cons.pc = "idle"
    /\ cons' = EnterGetTimeBounds("GetTimeBounds", 0)
    /\ UNCHANGED <<crb, prod, published>>

\* Read of StreamFrames frames up to its call of GetTimeBounds
ReaderCallRead ==
    /\ cons.pc = "idle"
    /\ \E startRead \in 0 .. MaxTime :
         cons' = IF StreamFrames > crb.mCapacityFrames
                 THEN ReaderIdle("Read", FALSE, 0, 0, startRead, 0, 0, FreshABL)
                 ELSE EnterGetTimeBounds("Read", startRead)
    /\ UNCHANGED <<crb, prod, published>>

ReaderLoadCounter ==
    /\ cons.pc = "loadCounter"
    /\ cons' = [cons EXCEPT !.pc = "loadUpdateCounter",
                            !.currentCounter = crb.mTimeBoundsQueueCounter]
    /\ UNCHANGED <<crb, prod, published>>

\* ReaderLoadUpdateCounter trying again for as long as the counters differ
ReaderLoadUpdateCounter_Unbounded ==
    /\ cons.pc = "loadUpdateCounter"
    /\ LET bounds == crb.mTimeBoundsQueue[BitAnd(cons.currentCounter, sTimeBoundsQueueMask)]
       IN  cons' = IF bounds.mUpdateCounter = cons.currentCounter
                   THEN [cons EXCEPT !.pc = "loadFirst"]
                   ELSE [cons EXCEPT !.pc = "loadCounter"]
    /\ UNCHANGED <<crb, prod, published>>

\* the load of the slot's counter and the comparison; when the attempts are
\* used up GetTimeBounds, and Read with it, returns false
ReaderLoadUpdateCounter ==
    /\ cons.pc = "loadUpdateCounter"
    /\ LET bounds == crb.mTimeBoundsQueue[BitAnd(cons.currentCounter, sTimeBoundsQueueMask)]
       IN  cons' = IF bounds.mUpdateCounter = cons.currentCounter
                   THEN [cons EXCEPT !.pc = "loadFirst"]
                   ELSE IF cons.i + 1 < GetTimeBoundsAttempts
                   THEN [cons EXCEPT !.pc = "loadCounter", !.i = cons.i + 1]
                   ELSE ReaderIdle(cons.op, FALSE, 0, 0, cons.startRead0, 0, 0,
                                   IF cons.op = "Read" THEN FreshABL ELSE <<>>)
    /\ UNCHANGED <<crb, prod, published>>

\* the two plain loads of mStartTime and mEndTime are not ordered against the
\* writer's plain stores: either is made first
ReaderLoadFirst ==
    /\ cons.pc = "loadFirst"
    /\ LET bounds == crb.mTimeBoundsQueue[BitAnd(cons.currentCounter, sTimeBoundsQueueMask)]
       IN  \E f \in {"mStartTime", "mEndTime"} :
             cons' = [cons EXCEPT !.pc = "loadSecond", !.first = f,
                                  !.startTime = IF f = "mStartTime" THEN bounds.mStartTime ELSE @,
                                  !.endTime = IF f = "mEndTime" THEN bounds.mEndTime ELSE @]
    /\ UNCHANGED <<crb, prod, published>>

\* the other load; GetTimeBounds returns true, and Read goes on to its copy
\* unless no frame is left after clamping
ReaderLoadSecond ==
    /\ cons.pc = "loadSecond"
    /\ LET bounds == crb.mTimeBoundsQueue[BitAnd(cons.currentCounter, sTimeBoundsQueueMask)]
           startTime == IF cons.first = "mStartTime" THEN cons.startTime ELSE bounds.mStartTime
           endTime == IF cons.first = "mEndTime" THEN cons.endTime ELSE bounds.mEndTime
           clamp == ClampTimes([ret |-> TRUE, startTime |-> startTime, endTime |-> endTime],
                               cons.startRead0, cons.startRead0 + StreamFrames)
       IN  cons' = IF cons.op = "GetTimeBounds"
                   THEN ReaderIdle("GetTimeBounds", TRUE, startTime, endTime, 0, 0, 0, <<>>)
                   ELSE IF clamp.startRead = clamp.endRead
                   THEN ReaderIdle("Read", TRUE, startTime, endTime, cons.startRead0,
                                   clamp.startRead, clamp.endRead,
                                   CARingBuffer_ReadClamped(crb, FreshABL, StreamFrames,
                                                            cons.startRead0, clamp).abl)
                   ELSE [cons EXCEPT !.pc = "fetch", !.first = "none",
                                     !.startTime = startTime, !.endTime = endTime,
                                     !.startRead = clamp.startRead, !.endRead = clamp.endRead]
    /\ UNCHANGED <<crb, prod, published>>

\* the zeroing of the frames outside the clamped range and the copy of the
\* frames inside it; Read returns true
ReaderFetch ==
    /\ cons.pc = "fetch"
    /\ LET clamp == [ret |-> TRUE, startRead |-> cons.startRead, endRead |-> cons.endRead]
           res == CARingBuffer_ReadClamped(crb, FreshABL, StreamFrames, cons.startRead0, clamp)
       IN  cons' = ReaderIdle("Read", res.ret, cons.startTime, cons.endTime, cons.startRead0,
                              cons.startRead, cons.endRead, res.abl)
    /\ UNCHANGED <<crb, prod, published>>

NextCAThreads ==
    \/ (WriterCall /\ UNCHANGED <<rb, arb, written, readOut, callVars>>)
    \/ (WriterSetStartTime /\ UNCHANGED <<rb, arb, written, readOut, callVars>>)
    \/ (WriterSetEndTime /\ UNCHANGED <<rb, arb, written, readOut, callVars>>)
    \/ (WriterSetUpdateCounter /\ UNCHANGED <<rb, arb, written, readOut, callVars>>)
    \/ (WriterSetCounter /\ UNCHANGED <<rb, arb, written, readOut, callVars>>)
    \/ (WriterStore /\ UNCHANGED <<rb, arb, written, readOut, callVars>>)
    \/ (ReaderCallGetTimeBounds /\ UNCHANGED <<rb, arb, written, readOut, callVars>>)
    \/ (ReaderCallRead /\ UNCHANGED <<rb, arb, written, readOut, callVars>>)
    \/ (ReaderLoadCounter /\ UNCHANGED <<rb, arb, written, readOut, callVars>>)
    \/ (ReaderLoadUpdateCounter /\ UNCHANGED <<rb, arb, written, readOut, callVars>>)
    \/ (ReaderLoadFirst /\ UNCHANGED <<rb, arb, written, readOut, callVars>>)
    \/ (ReaderLoadSecond /\ UNCHANGED <<rb, arb, written, readOut, callVars>>)
    \/ (ReaderFetch /\ UNCHANGED <<rb, arb, written, readOut, callVars>>)

SpecCAThreads == InitCAThreads /\ [][NextCAThreads]_vars

\* C7: under every interleaving of the writer thread with the reader thread, a
\* GetTimeBounds that returns true returns a (startTime, endTime) pair that one
\* SetTimeBounds call published (or the pair Allocate left), never the start
\* of one publication with the end of another.
C7_NoTornBounds ==
    (cons.pc = "idle" /\ cons.op = "GetTimeBounds" /\ cons.ret)
        => <<cons.startTime, cons.endTime>> \in published

\* C8: under every interleaving of the writer thread with the reader thread,
\* every frame a Read that returns true copied from the channel buffers for a
\* sample time t of its clamped range is the frame the writer stored for t
\* (the writer leaves no gaps, so no time is zero-filled).
C8_ReadsStoredFrames ==
    (cons.pc = "idle" /\ cons.op = "Read" /\ cons.ret /\ cons.startRead < cons.endRead)
        => \A t \in cons.startRead .. cons.endRead - 1 :
             \A c \in 1 .. NumChannels :
               \A b \in 0 .. BytesPerFrame - 1 :
                 cons.abl[c].mData[(t - cons.startRead0) * BytesPerFrame + b + 1]
                     = TimedByte(t, c, b)

----------------------------------------------------------------------------
(* Two threads on one SFB::CARingBuffer, the reader making one call only, a
   Read at time 0 and the GetTimeBounds in it, while the writer makes Write
   after Write: enough of them to change the slot under every attempt of the
   reader *)

\* the writer thread calls Write with the StreamFrames frames after its last
\* Write, until the call of the reader has returned
WriterCallThrash ==
    /\ prod.pc = "idle"
    /\ prod.n < MaxThrashWrites
    /\ (cons.op = "none" \/ cons.pc # "idle")
    /\ prod' = WriterEnter(prod, crb, StreamFrames, prod.time)
    /\ UNCHANGED <<crb, cons, published>>

NextCAThrash ==
    \/ (WriterCallThrash /\ UNCHANGED <<rb, arb, written, readOut, callVars>>)
    \/ (WriterSetStartTime /\ UNCHANGED <<rb, arb, written, readOut, callVars>>)
    \/ (WriterSetEndTime /\ UNCHANGED <<rb, arb, written, readOut, callVars>>)
    \/ (WriterSetUpdateCounter /\ UNCHANGED <<rb, arb, written, readOut, callVars>>)
    \/ (WriterSetCounter /\ UNCHANGED <<rb, arb, written, readOut, callVars>>)
    \/ (WriterStore /\ UNCHANGED <<rb, arb, written, readOut, callVars>>)
    \/ (cons.op = "none" /\ ReaderCallRead /\ cons'.startRead0 = 0
           /\ UNCHANGED <<rb, arb, written, readOut, callVars>>)
    \/ (ReaderLoadCounter /\ UNCHANGED <<rb, arb, written, readOut, callVars>>)
    \/ (ReaderLoadUpdateCounter /\ UNCHANGED <<rb, arb, written, readOut, callVars>>)
    \/ (ReaderLoadFirst /\ UNCHANGED <<rb, arb, written, readOut, callVars>>)
    \/ (ReaderLoadSecond /\ UNCHANGED <<rb, arb, written, readOut, callVars>>)
    \/ (ReaderFetch /\ UNCHANGED <<rb, arb, written, readOut, callVars>>)

SpecCAThrash == InitCAThreads /\ [][NextCAThrash]_vars

\* the steps GetTimeBounds has left at most, for the reader thread r
StepsLeft(r) ==
    CASE r.pc = "loadCounter" -> 2 * (GetTimeBoundsAttempts - r.i) + 2
      [] r.pc = "loadUpdateCounter" -> 2 * (GetTimeBoundsAttempts - r.i) + 1
      [] r.pc = "loadFirst" -> 2
      [] r.pc = "loadSecond" -> 1
      [] OTHER -> 0

\* the reader in GetTimeBounds has made fewer than 8 attempts and its next
\* step can be made whatever the writer is doing
C17_NeverKept ==
    /\ cons.i < GetTimeBoundsAttempts
    /\ cons.pc \in {"loadCounter", "loadUpdateCounter", "loadFirst", "loadSecond"}
         => ENABLED (ReaderLoadCounter \/ ReaderLoadUpdateCounter
                       \/ ReaderLoadFirst \/ ReaderLoadSecond)

\* a step of the reader in GetTimeBounds leaves fewer steps to make, ends in a
\* boolean, and the eighth failed attempt ends the call (and the Read) false
C17_BoundedStep ==
    LET inGetTimeBounds == cons.pc \in {"loadCounter", "loadUpdateCounter",
                                        "loadFirst", "loadSecond"}
        slot == crb.mTimeBoundsQueue[cons.currentCounter % sTimeBoundsQueueSize]
    IN  /\ (inGetTimeBounds /\ cons' # cons)
             => /\ StepsLeft(cons') < StepsLeft(cons)
                /\ cons'.pc = "idle" => cons'.ret \in BOOLEAN
                /\ ( /\ cons.pc = "loadUpdateCounter"
                     /\ slot.mUpdateCounter # cons.currentCounter
                     /\ cons.i = GetTimeBoundsAttempts - 1 )
                   => (cons'.pc = "idle" /\ cons'.ret = FALSE)

\* C17: GetTimeBounds terminates after at most 8 attempts whatever the writer
\* does meanwhile: every step the reader makes in it leaves fewer steps to
\* make, it is never kept from making its next step, it ends by returning
\* true or false, and a Read whose GetTimeBounds fails returns false.
C17_Bounded == []C17_NeverKept /\ [][C17_BoundedStep]_vars

\* the Read came back false: the writer changed the slot under each of the
\* attempts of its GetTimeBounds
C17_Witness ==
    /\ cons.pc = "idle" /\ cons.op = "Read"
    /\ ~cons.ret
    /\ crb.mTimeBoundsQueueCounter >= sTimeBoundsQueueSize * (GetTimeBoundsAttempts - 1)

----------------------------------------------------------------------------
(* One thread calling Write on an SFB::CARingBuffer, followed step by step:
   what GetTimeBounds would return between the steps of a Write is what a
   reader could be given at that moment *)

InitCASteps ==
    /\ rb = RingBuffer_Init
    /\ arb = AudioRingBuffer_Init
    /\ crb = CARingBuffer_Allocate(CARingBuffer_Init, TheFormat, RequestedCapacityFrames, TRUE).obj
    /\ published = {<<0, 0>>}
    /\ harness = "casteps"
    /\ wrTotal = 0
    /\ rdTotal = 0
    /\ last = NoCall
    /\ prev = NoCall
    /\ prod = WriterIdle(0, 0)
    /\ cons = ReaderIdle("none", FALSE, 0, 0, 0, 0, 0, <<>>)
    /\ written = <<>>
    /\ readOut = <<>>

\* the thread calls Write with any accepted frame count at any time up to MaxTime
WriterCallAny ==
    /\ prod.pc = "idle"
    /\ crb.mTimeBoundsQueueCounter < MaxPublications
    /\ \E frameCount \in 1 .. crb.mCapacityFrames :
         \E startWrite \in 0 .. MaxTime :
            prod' = WriterEnter(prod, crb, frameCount, startWrite)
    /\ UNCHANGED <<crb, cons, published>>

NextCASteps ==
    \/ (WriterCallAny /\ UNCHANGED <<rb, arb, written, readOut, callVars>>)
    \/ (WriterSetStartTime /\ UNCHANGED <<rb, arb, written, readOut, callVars>>)
    \/ (WriterSetEndTime /\ UNCHANGED <<rb, arb, written, readOut, callVars>>)
    \/ (WriterSetUpdateCounter /\ UNCHANGED <<rb, arb, written, readOut, callVars>>)
    \/ (WriterSetCounter /\ UNCHANGED <<rb, arb, written, readOut, callVars>>)
    \/ (WriterStore /\ UNCHANGED <<rb, arb, written, readOut, callVars>>)

SpecCASteps == InitCASteps /\ [][NextCASteps]_vars

\* the Write in progress started before the end bound in effect at its call
Rewinding ==
    /\ prod.pc # "idle"
    /\ prod.startWrite < crb.mTimeBoundsQueue[prod.counter0 % sTimeBoundsQueueSize].mEndTime

\* C15: a Write(frameCount > 0, startTime) with startTime < current endTime
\* publishes the collapsed bounds [startTime, startTime) before any frame is
\* copied and [startTime, startTime + frameCount) after the copy, and no other
\* bounds, whatever the previous bounds were.
C15_RewindStep ==
    Rewinding
        => LET bounds == CARingBuffer_GetTimeBounds(crb)
               after == CARingBuffer_GetTimeBounds(crb')
               collapsed == [ret |-> TRUE, startTime |-> prod.startWrite,
                             endTime |-> prod.startWrite]
               whole == [ret |-> TRUE, startTime |-> prod.startWrite,
                         endTime |-> prod.endWrite]
           IN  /\ prod.pc = "store" => bounds = collapsed
               /\ crb'.mBuffers # crb.mBuffers => bounds = collapsed
               /\ crb'.mTimeBoundsQueueCounter # crb.mTimeBoundsQueueCounter
                    => \/ /\ crb'.mTimeBoundsQueueCounter = prod.counter0 + 1
                          /\ after = collapsed
                          /\ prod'.pc = "store"
                       \/ /\ crb'.mTimeBoundsQueueCounter = prod.counter0 + 2
                          /\ after = whole
                          /\ prod'.pc = "idle"
               /\ prod'.pc = "idle"
                    => /\ crb'.mTimeBoundsQueueCounter = prod.counter0 + 2
                       /\ after = whole

C15_Rewind == [][C15_RewindStep]_vars

\* a Write that goes back into written frames has published the collapsed
\* bounds and is about to copy
C15_Witness ==
    /\ Rewinding
    /\ prod.pc = "store"
    /\ prod.startWrite > 0
    /\ crb.mTimeBoundsQueue[prod.counter0 % sTimeBoundsQueueSize].mStartTime < prod.startWrite
    /\ CARingBuffer_GetTimeBounds(crb)
           = [ret |-> TRUE, startTime |-> prod.startWrite, endTime |-> prod.startWrite]

----------------------------------------------------------------------------
(* One thread writing on and on to an SFB::CARingBuffer, until the slots of
   the time bounds queue have been used again, and calling GetTimeBounds
   between its Writes *)

InitCALong ==
    /\ rb = RingBuffer_Init
    /\ arb = AudioRingBuffer_Init
    /\ crb = CARingBuffer_Allocate(CARingBuffer_Init, TheFormat, RequestedCapacityFrames, TRUE).obj
    /\ published = {<<0, 0>>}
    /\ harness = "calong"
    /\ wrTotal = 0
    /\ rdTotal = 0
    /\ last = TimedCall("Allocate", RequestedCapacityFrames, 0, FALSE, TRUE, <<>>, 0, 0)
    /\ prev = NoCall
    /\ prod = WriterIdle(0, 0)
    /\ cons = ReaderIdle("none", FALSE, 0, 0, 0, 0, 0, <<>>)
    /\ written = <<>>
    /\ readOut = <<>>

\* the thread calls Write with one or StreamFrames frames one frame before,
\* at, or one frame after the end of its last Write
WriterCallNear ==
    /\ prod.pc = "idle"
    /\ crb.mTimeBoundsQueueCounter < MaxLongPublications
    /\ \E frameCount \in {1, StreamFrames} :
         \E startWrite \in {prod.time - 1, prod.time, prod.time + 1} :
            /\ startWrite >= 0
            /\ prod' = WriterEnter(prod, crb, frameCount, startWrite)
    /\ prev' = NoCall
    /\ UNCHANGED <<crb, cons, published, last>>

\* the thread calls GetTimeBounds between two Writes; prev is what it returned
QuietGetTimeBounds ==
    /\ prod.pc = "idle"
    /\ LET res == CARingBuffer_GetTimeBounds(crb)
       IN  prev' = TimedCall("GetTimeBounds", 0, 0, FALSE, res.ret, <<>>,
                             res.startTime, res.endTime)
    /\ UNCHANGED <<crb, prod, cons, published, last>>

\* the store of the shared counter ends a publication: last is the
\* (startTime, endTime) SetTimeBounds was called with
WriterSetCounterLast ==
    /\ WriterSetCounter
    /\ last' = TimedCall("SetTimeBounds", 0, 0, FALSE, TRUE, <<>>, prod.startTime, prod.endTime)
    /\ UNCHANGED prev

NextCALong ==
    \/ (WriterCallNear /\ UNCHANGED <<rb, arb, written, readOut, harness, wrTotal, rdTotal>>)
    \/ (WriterSetStartTime /\ UNCHANGED <<rb, arb, written, readOut, callVars>>)
    \/ (WriterSetEndTime /\ UNCHANGED <<rb, arb, written, readOut, callVars>>)
    \/ (WriterSetUpdateCounter /\ UNCHANGED <<rb, arb, written, readOut, callVars>>)
    \/ (WriterSetCounterLast /\ UNCHANGED <<rb, arb, written, readOut, harness, wrTotal, rdTotal>>)
    \/ (WriterStore /\ UNCHANGED <<rb, arb, written, readOut, callVars>>)
    \/ (QuietGetTimeBounds /\ UNCHANGED <<rb, arb, written, readOut, harness, wrTotal, rdTotal>>)

SpecCALong == InitCALong /\ [][NextCALong]_vars

\* GetTimeBounds making one attempt only
GetTimeBoundsOnce(o) == GetTimeBoundsFrom(o, GetTimeBoundsAttempts - 1)

\* C18: when no Write runs concurrently, GetTimeBounds succeeds on its first
\* attempt and returns exactly the bounds of the most recent SetTimeBounds
\* publication, (0,0) if there was none since Allocate, after any number of
\* Writes, more than 8 publications (so that slots were used again) included.
C18_QuietBounds ==
    LET recent == [ret |-> TRUE, startTime |-> last.startTime, endTime |-> last.endTime]
    IN  /\ prod.pc = "idle"
             => /\ GetTimeBoundsOnce(crb) = recent
                /\ CARingBuffer_GetTimeBounds(crb) = recent
        /\ prev.op = "GetTimeBounds"
             => (prev.ret /\ prev.startTime = recent.startTime /\ prev.endTime = recent.endTime)

\* GetTimeBounds was called after more than 8 publications, every slot of the
\* queue written and the first ones written again
C18_Witness ==
    /\ prev.op = "GetTimeBounds" /\ prev.ret
    /\ prev.startTime > 0 /\ prev.endTime > prev.startTime
    /\ crb.mTimeBoundsQueueCounter > sTimeBoundsQueueSize
    /\ \A i \in DOMAIN crb.mTimeBoundsQueue : crb.mTimeBoundsQueue[i].mUpdateCounter > 0
    /\ crb.mTimeBoundsQueue[0].mUpdateCounter = sTimeBoundsQueueSize
    /\ last.op = "SetTimeBounds"

----------------------------------------------------------------------------
(* One thread calling Allocate on a constructed SFB::RingBuffer,
   SFB::AudioRingBuffer or SFB::CARingBuffer, with any capacity a uint32_t
   holds and std::malloc returning storage, and, when the capacity was the
   one the driving program asks for, once more on the allocated object *)

\* a format whose channels share one buffer
InterleavedFormat == Format(NumChannels, NumChannels * BytesPerFrame, FALSE)

\* the record of a completed call of Allocate: the object it was made on,
\* the capacity asked for, whether the format was interleaved, what it returned
AllocateCall(op, capacity, interleaved, ret) ==
    [op |-> op, capacity |-> capacity, interleaved |-> interleaved, ret |-> ret]

InitAllocate ==
    /\ rb = RingBuffer_Init
    /\ arb = AudioRingBuffer_Init
    /\ crb = CARingBuffer_Init
    /\ published = {}
    /\ harness = "allocate"
    /\ wrTotal = 0
    /\ rdTotal = 0
    /\ last = NoCall
    /\ prev = NoCall
    /\ prod = Idle(0)
    /\ cons = Idle(0)
    /\ written = <<>>
    /\ readOut = <<>>

\* wrTotal counts the calls of Allocate made
ByteAllocateAny ==
    /\ harness = "allocate"
    /\ \/ last.op = "none"
       \/ (wrTotal = 1 /\ last = AllocateCall("RingBuffer", RequestedCapacityBytes, FALSE, TRUE))
    /\ \E capacityBytes \in 0 .. UInt32Modulus - 1 :
         LET res == RingBuffer_Allocate(rb, capacityBytes, TRUE)
         IN  /\ rb' = res.obj
             /\ last' = AllocateCall("RingBuffer", capacityBytes, FALSE, res.ret)
    /\ wrTotal' = wrTotal + 1
    /\ UNCHANGED <<arb, crb, harness, rdTotal, prev, threadVars>>

FrameAllocateAny ==
    /\ harness = "allocate"
    /\ \/ last.op = "none"
       \/ (wrTotal = 1 /\ last = AllocateCall("AudioRingBuffer", RequestedCapacityFrames, FALSE, TRUE))
    /\ \E format \in {TheFormat, InterleavedFormat} :
         \E capacityFrames \in 0 .. UInt32Modulus - 1 :
            LET res == AudioRingBuffer_Allocate(arb, format, capacityFrames, TRUE)
            IN  /\ arb' = res.obj
                /\ last' = AllocateCall("AudioRingBuffer", capacityFrames,
                                        IsInterleaved(format), res.ret)
    /\ wrTotal' = wrTotal + 1
    /\ UNCHANGED <<rb, crb, harness, rdTotal, prev, threadVars>>

CAAllocateAny ==
    /\ harness = "allocate"
    /\ \/ last.op = "none"
       \/ (wrTotal = 1 /\ last = AllocateCall("CARingBuffer", RequestedCapacityCA, FALSE, TRUE))
    /\ \E format \in {TheFormat, InterleavedFormat} :
         \E capacityFrames \in 0 .. UInt32Modulus - 1 :
            LET res == CARingBuffer_Allocate(crb, format, capacityFrames, TRUE)
            IN  /\ crb' = res.obj
                /\ last' = AllocateCall("CARingBuffer", capacityFrames,
                                        IsInterleaved(format), res.ret)
    /\ wrTotal' = wrTotal + 1
    /\ UNCHANGED <<rb, arb, harness, rdTotal, prev, threadVars>>

NextAllocate ==
    \/ ByteAllocateAny
    \/ FrameAllocateAny
    \/ CAAllocateAny

SpecAllocate == InitAllocate /\ [][NextAllocate]_vars

\* the capacity and the mask of the object the last Allocate was called on
AllocatedCapacity ==
    CASE last.op = "RingBuffer" -> <<rb.mCapacityBytes, rb.mCapacityBytesMask>>
      [] last.op = "AudioRingBuffer" -> <<arb.mCapacityFrames, arb.mCapacityFramesMask>>
      [] last.op = "CARingBuffer" -> <<crb.mCapacityFrames, crb.mCapacityFramesMask>>

\* the powers of two a uint32_t holds
PowersOfTwo == {Pow2(k) : k \in 0 .. WordBits - 1}

\* the largest capacity Allocate accepts, 0x80000000 for a uint32_t of 32 bits
MaxCapacity == Pow2(WordBits - 1)

----------------------------------------------------------------------------
(* One thread taking one of the three buffers through its whole life, from
   the constructed object on: Allocate with valid and invalid arguments and
   with std::malloc returning storage or not, Deallocate, Reset, the
   transfers, the cursor advances and the queries, in any order.  A call that
   reaches a copy to or from storage that is not there has undefined
   behaviour: the program stops there, or the call returns what the code
   computes and nothing is known of the program from then on. *)

\* the capacities asked of Allocate: too small, the smallest, the one the
\* driving program asks for, too large
LifeCapacities(requested) == {1, 2, requested, Pow2(WordBits - 1) + 1}

\* the byte counts passed to AdvanceReadPosition and AdvanceWritePosition:
\* none, one, more than any capacity, the largest uint32_t
AdvanceCounts == {0, 1, Pow2(WordBits - 1) + 1, UInt32Modulus - 1}

\* the <<count, allowPartial, null buffer>> arguments of the transfers: no
\* unit, one unit or the units asked of Allocate with either policy, and a
\* null buffer
LifeArgs(requested) ==
    {<<c, p, FALSE>> : c \in {0, 1, requested}, p \in BOOLEAN} \cup {<<1, TRUE, TRUE>>}

\* the record of the last call: which member function it was; for Allocate,
\* what it returned (ret) and whether a cursor or the publication counter of
\* the object was not 0 at the call (count 1, else 0); for Reset, whether a
\* cursor was not 0 at the call (count 1, else 0); for the two advances, the
\* byteCount passed (count); for Deallocate,
\* the number of Deallocate calls in a row (count, 2 for two or more),
\* whether there was storage before the first of them (ret) and the calls of
\* std::free they made (frees)
LifeCall(op, ret, count, frees) ==
    [op |-> op, ret |-> ret, count |-> count, frees |-> frees]

\* the outcomes of a call with undefined behaviour
UndefinedOutcomes == {"crashed", "undefined"}

InitLife ==
    /\ rb = RingBuffer_Init
    /\ arb = AudioRingBuffer_Init
    /\ crb = CARingBuffer_Init
    /\ published = {}
    /\ harness \in {"lifebyte", "lifeframe", "lifeca"}
    /\ wrTotal = 0
    /\ rdTotal = 0
    /\ last = LifeCall("none", 0, 0, 0)
    /\ prev = NoCall
    /\ prod = Idle(0)
    /\ cons = Idle(0)
    /\ written = <<>>
    /\ readOut = <<>>

\* last after one more Deallocate of an object for which frees tells whether
\* std::free is called
AfterDeallocate(frees) ==
    IF last.op = "Deallocate"
    THEN LifeCall("Deallocate", last.ret, 2, last.frees + (IF frees THEN 1 ELSE 0))
    ELSE LifeCall("Deallocate", frees, 1, IF frees THEN 1 ELSE 0)

LifeByteAllocate ==
    /\ harness = "lifebyte"
    /\ \E capacityBytes \in LifeCapacities(RequestedCapacityBytes) :
         \E mallocOk \in BOOLEAN :
            LET res == RingBuffer_Allocate(rb, capacityBytes, mallocOk)
                used == rb.mReadPosition # 0 \/ rb.mWritePosition # 0
            IN  /\ rb' = res.obj
                /\ last' = LifeCall("Allocate", res.ret, IF used THEN 1 ELSE 0, 0)
    /\ UNCHANGED <<arb, crb, harness, wrTotal, rdTotal, prev, threadVars>>

\* prev is the object as the first Deallocate of a row left it
LifeByteDeallocate ==
    /\ harness = "lifebyte"
    /\ rb' = RingBuffer_Deallocate(rb)
    /\ last' = AfterDeallocate(RingBuffer_Frees(rb))
    /\ prev' = IF last.op = "Deallocate" THEN prev ELSE RingBuffer_Deallocate(rb)
    /\ UNCHANGED <<arb, crb, harness, wrTotal, rdTotal, threadVars>>

LifeByteReset ==
    /\ harness = "lifebyte"
    /\ rb' = RingBuffer_Reset(rb)
    /\ last' = LifeCall("Reset", 0,
                        IF rb.mReadPosition # 0 \/ rb.mWritePosition # 0 THEN 1 ELSE 0, 0)
    /\ UNCHANGED <<arb, crb, harness, wrTotal, rdTotal, prev, threadVars>>

LifeByteRead ==
    /\ harness = "lifebyte"
    /\ \E a \in LifeArgs(RequestedCapacityBytes) :
         LET res == RingBuffer_Read(rb, FreshDst, a[3], a[1], a[2])
         IN  IF rb.mBuffer = NullBuffer /\ res.ret > 0
             THEN /\ harness' \in UndefinedOutcomes
                  /\ rb' = (IF harness' = "crashed" THEN rb ELSE res.obj)
             ELSE /\ rb' = res.obj
                  /\ UNCHANGED harness
    /\ last' = LifeCall("Read", 0, 0, 0)
    /\ UNCHANGED <<arb, crb, wrTotal, rdTotal, prev, threadVars>>

LifeBytePeek ==
    /\ harness = "lifebyte"
    /\ \E a \in LifeArgs(RequestedCapacityBytes) :
         LET res == RingBuffer_Peek(rb, FreshDst, a[3], a[1], a[2])
         IN  IF rb.mBuffer = NullBuffer /\ res.ret > 0
             THEN /\ harness' \in UndefinedOutcomes
                  /\ rb' = (IF harness' = "crashed" THEN rb ELSE res.obj)
             ELSE /\ rb' = res.obj
                  /\ UNCHANGED harness
    /\ last' = LifeCall("Peek", 0, 0, 0)
    /\ UNCHANGED <<arb, crb, wrTotal, rdTotal, prev, threadVars>>

\* the program writes the first bytes of its stream every time
LifeByteWrite ==
    /\ harness = "lifebyte"
    /\ \E a \in LifeArgs(RequestedCapacityBytes) :
         LET res == RingBuffer_Write(rb, Stream(0, a[1]), a[3], a[1], a[2])
         IN  IF rb.mBuffer = NullBuffer /\ res.ret > 0
             THEN /\ harness' \in UndefinedOutcomes
                  /\ rb' = (IF harness' = "crashed" THEN rb ELSE res.obj)
             ELSE /\ rb' = res.obj
                  /\ UNCHANGED harness
    /\ last' = LifeCall("Write", 0, 0, 0)
    /\ UNCHANGED <<arb, crb, wrTotal, rdTotal, prev, threadVars>>

LifeByteAdvanceRead ==
    /\ harness = "lifebyte"
    /\ \E byteCount \in AdvanceCounts :
         /\ rb' = RingBuffer_AdvanceReadPosition(rb, byteCount)
         /\ last' = LifeCall("AdvanceReadPosition", 0, byteCount, 0)
    /\ UNCHANGED <<arb, crb, harness, wrTotal, rdTotal, prev, threadVars>>

LifeByteAdvanceWrite ==
    /\ harness = "lifebyte"
    /\ \E byteCount \in AdvanceCounts :
         /\ rb' = RingBuffer_AdvanceWritePosition(rb, byteCount)
         /\ last' = LifeCall("AdvanceWritePosition", 0, byteCount, 0)
    /\ UNCHANGED <<arb, crb, harness, wrTotal, rdTotal, prev, threadVars>>

\* ReadVector, WriteVector, BytesAvailableToRead, BytesAvailableToWrite:
\* const member functions
LifeByteQuery ==
    /\ harness = "lifebyte"
    /\ \E op \in {"ReadVector", "WriteVector", "BytesAvailableToRead", "BytesAvailableToWrite"} :
         last' = LifeCall(op, 0, 0, 0)
    /\ UNCHANGED <<rb, arb, crb, harness, wrTotal, rdTotal, prev, threadVars>>

LifeFrameAllocate ==
    /\ harness = "lifeframe"
    /\ \E format \in {TheFormat, InterleavedFormat} :
         \E capacityFrames \in LifeCapacities(RequestedCapacityFrames) :
            \E mallocOk \in BOOLEAN :
               LET res == AudioRingBuffer_Allocate(arb, format, capacityFrames, mallocOk)
                   used == arb.mReadPointer # 0 \/ arb.mWritePointer # 0
               IN  /\ arb' = res.obj
                   /\ last' = LifeCall("Allocate", res.ret, IF used THEN 1 ELSE 0, 0)
    /\ UNCHANGED <<rb, crb, harness, wrTotal, rdTotal, prev, threadVars>>

LifeFrameDeallocate ==
    /\ harness = "lifeframe"
    /\ arb' = AudioRingBuffer_Deallocate(arb)
    /\ last' = AfterDeallocate(AudioRingBuffer_Frees(arb))
    /\ prev' = IF last.op = "Deallocate" THEN prev ELSE AudioRingBuffer_Deallocate(arb)
    /\ UNCHANGED <<rb, crb, harness, wrTotal, rdTotal, threadVars>>

LifeFrameReset ==
    /\ harness = "lifeframe"
    /\ arb' = AudioRingBuffer_Reset(arb)
    /\ last' = LifeCall("Reset", 0,
                        IF arb.mReadPointer # 0 \/ arb.mWritePointer # 0 THEN 1 ELSE 0, 0)
    /\ UNCHANGED <<rb, crb, harness, wrTotal, rdTotal, prev, threadVars>>

LifeFrameRead ==
    /\ harness = "lifeframe"
    /\ \E a \in LifeArgs(RequestedCapacityFrames) :
         LET res == AudioRingBuffer_Read(arb, FreshABL, a[3], a[1], a[2])
         IN  IF arb.mBuffers = NullBuffer /\ res.ret > 0
             THEN /\ harness' \in UndefinedOutcomes
                  /\ arb' = (IF harness' = "crashed" THEN arb ELSE res.obj)
             ELSE /\ arb' = res.obj
                  /\ UNCHANGED harness
    /\ last' = LifeCall("Read", 0, 0, 0)
    /\ UNCHANGED <<rb, crb, wrTotal, rdTotal, prev, threadVars>>

\* the program writes the first frames of its stream every time
LifeFrameWrite ==
    /\ harness = "lifeframe"
    /\ \E a \in LifeArgs(RequestedCapacityFrames) :
         LET res == AudioRingBuffer_Write(arb, FrameSource(0, a[1]), a[3], a[1], a[2])
         IN  IF arb.mBuffers = NullBuffer /\ res.ret > 0
             THEN /\ harness' \in UndefinedOutcomes
                  /\ arb' = (IF harness' = "crashed" THEN arb ELSE res.obj)
             ELSE /\ arb' = res.obj
                  /\ UNCHANGED harness
    /\ last' = LifeCall("Write", 0, 0, 0)
    /\ UNCHANGED <<rb, crb, wrTotal, rdTotal, prev, threadVars>>

\* FramesAvailableToRead, FramesAvailableToWrite: const member functions
LifeFrameQuery ==
    /\ harness = "lifeframe"
    /\ \E op \in {"FramesAvailableToRead", "FramesAvailableToWrite"} :
         last' = LifeCall(op, 0, 0, 0)
    /\ UNCHANGED <<rb, arb, crb, harness, wrTotal, rdTotal, prev, threadVars>>

LifeCAAllocate ==
    /\ harness = "lifeca"
    /\ \E format \in {TheFormat, InterleavedFormat} :
         \E capacityFrames \in LifeCapacities(RequestedCapacityFrames) :
            \E mallocOk \in BOOLEAN :
               LET res == CARingBuffer_Allocate(crb, format, capacityFrames, mallocOk)
                   used == crb.mTimeBoundsQueueCounter # 0
               IN  /\ crb' = res.obj
                   /\ last' = LifeCall("Allocate", res.ret, IF used THEN 1 ELSE 0, 0)
    /\ UNCHANGED <<rb, arb, harness, wrTotal, rdTotal, prev, threadVars>>

LifeCADeallocate ==
    /\ harness = "lifeca"
    /\ crb' = CARingBuffer_Deallocate(crb)
    /\ last' = AfterDeallocate(CARingBuffer_Frees(crb))
    /\ prev' = IF last.op = "Deallocate" THEN prev ELSE CARingBuffer_Deallocate(crb)
    /\ UNCHANGED <<rb, arb, harness, wrTotal, rdTotal, threadVars>>

\* Write of one or StreamFrames frames at a time up to MaxTime, until
\* MaxPublications bounds were published since the last Allocate
LifeCAWrite ==
    /\ harness = "lifeca"
    /\ crb.mTimeBoundsQueueCounter < MaxPublications
    /\ \E frameCount \in {1, StreamFrames} :
         \E startWrite \in 0 .. MaxTime :
            LET res == CARingBuffer_Write(crb, TimedSource(startWrite, frameCount), FALSE,
                                          frameCount, startWrite)
            IN  IF crb.mBuffers = NullBuffer /\ frameCount <= crb.mCapacityFrames
                THEN /\ harness' \in UndefinedOutcomes
                     /\ crb' = (IF harness' = "crashed" THEN crb ELSE res.obj)
                ELSE /\ crb' = res.obj
                     /\ UNCHANGED harness
    /\ last' = LifeCall("Write", 0, 0, 0)
    /\ UNCHANGED <<rb, arb, wrTotal, rdTotal, prev, threadVars>>

NextLife ==
    \/ LifeByteAllocate
    \/ LifeByteDeallocate
    \/ LifeByteReset
    \/ LifeByteRead
    \/ LifeBytePeek
    \/ LifeByteWrite
    \/ LifeByteAdvanceRead
    \/ LifeByteAdvanceWrite
    \/ LifeByteQuery
    \/ LifeFrameAllocate
    \/ LifeFrameDeallocate
    \/ LifeFrameReset
    \/ LifeFrameRead
    \/ LifeFrameWrite
    \/ LifeFrameQuery
    \/ LifeCAAllocate
    \/ LifeCADeallocate
    \/ LifeCAWrite

SpecLife == InitLife /\ [][NextLife]_vars

\* the program has not run into undefined behaviour
Defined == harness \in {"lifebyte", "lifeframe", "lifeca"}

\* C21: whenever Allocate returns false (invalid capacity, interleaved
\* format, or allocation failure) on any of the three buffers, no partial
\* state is retained: any prior allocation has been released and the buffer
\* is in the unallocated state (no storage, capacity 0, mask 0, cursors 0), so
\* that in every reachable state capacity is non-zero if and only if storage
\* is allocated.
C21_FailedAllocate ==
    Defined
        => /\ (last.op = "Allocate" /\ ~last.ret)
                => /\ harness = "lifebyte" => rb = RingBuffer_Init
                   /\ harness = "lifeframe" => arb = AudioRingBuffer_Init
                   /\ harness = "lifeca" => crb = CARingBuffer_Init
           /\ rb.mCapacityBytes # 0 <=> rb.mBuffer # NullBuffer
           /\ arb.mCapacityFrames # 0 <=> arb.mBuffers # NullBuffer
           /\ crb.mCapacityFrames # 0 <=> crb.mBuffers # NullBuffer

\* C22: a successful Allocate always yields the initial empty state, whatever
\* calls preceded it: for the byte and the frame buffer both cursors are 0
\* (available-to-read 0, available-to-write capacity - 1); for the timestamped
\* buffer the publication counter and all 8 bounds slots are zero and
\* GetTimeBounds returns (0, 0).
C22_AllocateEmpties ==
    (Defined /\ last.op = "Allocate" /\ last.ret)
        => /\ harness = "lifebyte"
                => /\ rb.mBuffer # NullBuffer
                   /\ rb.mReadPosition = 0 /\ rb.mWritePosition = 0
                   /\ RingBuffer_BytesAvailableToRead(rb) = 0
                   /\ RingBuffer_BytesAvailableToWrite(rb) = rb.mCapacityBytes - 1
           /\ harness = "lifeframe"
                => /\ arb.mBuffers # NullBuffer
                   /\ arb.mReadPointer = 0 /\ arb.mWritePointer = 0
                   /\ AudioRingBuffer_FramesAvailableToRead(arb) = 0
                   /\ AudioRingBuffer_FramesAvailableToWrite(arb) = arb.mCapacityFrames - 1
           /\ harness = "lifeca"
                => /\ crb.mBuffers # NullBuffer
                   /\ crb.mTimeBoundsQueueCounter = 0
                   /\ \A i \in DOMAIN crb.mTimeBoundsQueue :
                        crb.mTimeBoundsQueue[i] = TimeBounds(0, 0, 0)
                   /\ CARingBuffer_GetTimeBounds(crb)
                          = [ret |-> TRUE, startTime |-> 0, endTime |-> 0]

\* Allocate succeeded on a byte buffer whose cursors were not 0 at the call
C22_Witness ==
    /\ harness = "lifebyte"
    /\ last.op = "Allocate" /\ last.ret /\ last.count = 1
    /\ rb.mReadPosition = 0 /\ rb.mWritePosition = 0

\* C23: Read and Write never crash: called on a byte or frame buffer that is
\* not allocated (never allocated, deallocated, or left by a failed Allocate),
\* with a non-null buffer and a non-zero count, they return 0 and make no
\* access to the absent storage.
C23_UnallocatedTransfers ==
    /\ harness \notin UndefinedOutcomes
    /\ (harness = "lifebyte" /\ rb.mBuffer = NullBuffer)
         => \A a \in LifeArgs(RequestedCapacityBytes) :
              (~a[3] /\ a[1] > 0)
                => /\ RingBuffer_Read(rb, FreshDst, FALSE, a[1], a[2]).ret = 0
                   /\ RingBuffer_Write(rb, Stream(0, a[1]), FALSE, a[1], a[2]).ret = 0
    /\ (harness = "lifeframe" /\ arb.mBuffers = NullBuffer)
         => \A a \in LifeArgs(RequestedCapacityFrames) :
              (~a[3] /\ a[1] > 0)
                => /\ AudioRingBuffer_Read(arb, FreshABL, FALSE, a[1], a[2]).ret = 0
                   /\ AudioRingBuffer_Write(arb, FrameSource(0, a[1]), FALSE, a[1], a[2]).ret = 0

\* C25: Deallocate is idempotent: from any state, calling Deallocate twice
\* leaves the same state as calling it once (no storage, capacity 0, mask 0,
\* cursors 0; for the timestamped buffer also all bounds slots and the
\* publication counter 0), and the storage is released exactly once.
C25_DeallocateTwice ==
    (Defined /\ last.op = "Deallocate")
        => /\ harness = "lifebyte"
                => /\ rb = prev
                   /\ rb = RingBuffer_Init
                   /\ RingBuffer_Deallocate(rb) = rb
                   /\ ~RingBuffer_Frees(rb)
           /\ harness = "lifeframe"
                => /\ arb = prev
                   /\ arb = AudioRingBuffer_Init
                   /\ AudioRingBuffer_Deallocate(arb) = arb
                   /\ ~AudioRingBuffer_Frees(arb)
           /\ harness = "lifeca"
                => /\ crb = prev
                   /\ crb = CARingBuffer_Init
                   /\ CARingBuffer_Deallocate(crb) = crb
                   /\ ~CARingBuffer_Frees(crb)
           /\ last.frees = (IF last.ret THEN 1 ELSE 0)

\* C26: Reset sets both cursors to 0 and changes nothing else: capacity, mask,
\* storage ownership and storage contents are unchanged, and immediately
\* afterwards BytesAvailableToRead() == 0 and BytesAvailableToWrite() ==
\* capacity - 1 (the uint32_t expression; likewise for the frame buffer).
C26_ResetStep ==
    (Defined /\ last'.op = "Reset")
        => /\ harness = "lifebyte"
                => /\ rb'.mReadPosition = 0
                   /\ rb'.mWritePosition = 0
                   /\ rb'.mCapacityBytes = rb.mCapacityBytes
                   /\ rb'.mCapacityBytesMask = rb.mCapacityBytesMask
                   /\ rb'.mBuffer = rb.mBuffer
                   /\ RingBuffer_BytesAvailableToRead(rb') = 0
                   /\ RingBuffer_BytesAvailableToWrite(rb') = U32(rb.mCapacityBytes - 1)
                   /\ rb.mBuffer # NullBuffer
                        => RingBuffer_BytesAvailableToWrite(rb') = rb.mCapacityBytes - 1
           /\ harness = "lifeframe"
                => /\ arb'.mReadPointer = 0
                   /\ arb'.mWritePointer = 0
                   /\ arb'.mCapacityFrames = arb.mCapacityFrames
                   /\ arb'.mCapacityFramesMask = arb.mCapacityFramesMask
                   /\ arb'.mFormat = arb.mFormat
                   /\ arb'.mBuffers = arb.mBuffers
                   /\ AudioRingBuffer_FramesAvailableToRead(arb') = 0
                   /\ AudioRingBuffer_FramesAvailableToWrite(arb')
                          = U32(arb.mCapacityFrames - 1)
                   /\ arb.mBuffers # NullBuffer
                        => AudioRingBuffer_FramesAvailableToWrite(arb')
                              = arb.mCapacityFrames - 1
           /\ last'.frees = 0
           /\ harness' = harness

C26_Reset == [][C26_ResetStep]_vars

\* a Reset of an allocated byte buffer whose cursors had moved: they are 0
\* and the bytes written before it are still in the storage
C26_Witness ==
    /\ harness = "lifebyte"
    /\ last.op = "Reset" /\ last.count = 1
    /\ rb.mBuffer # NullBuffer
    /\ rb.mReadPosition = 0 /\ rb.mWritePosition = 0
    /\ \E i \in DOMAIN rb.mBuffer : rb.mBuffer[i] # Uninit
    /\ RingBuffer_BytesAvailableToWrite(rb) = rb.mCapacityBytes - 1

\* C28: in every reachable state of an allocated ByteRingBuffer or
\* FrameRingBuffer, after any sequence of Read, Write, Peek, Reset,
\* AdvanceReadPosition(n) and AdvanceWritePosition(n) with arbitrary 32-bit n,
\* both cursors lie in [0, capacity).
C28_CursorsInRange ==
    /\ (harness = "lifebyte" /\ rb.mBuffer # NullBuffer)
         => /\ rb.mReadPosition \in 0 .. rb.mCapacityBytes - 1
            /\ rb.mWritePosition \in 0 .. rb.mCapacityBytes - 1
            /\ \A n \in 0 .. UInt32Modulus - 1 :
                 /\ RingBuffer_AdvanceReadPosition(rb, n).mReadPosition
                        \in 0 .. rb.mCapacityBytes - 1
                 /\ RingBuffer_AdvanceWritePosition(rb, n).mWritePosition
                        \in 0 .. rb.mCapacityBytes - 1
    /\ (harness = "lifeframe" /\ arb.mBuffers # NullBuffer)
         => /\ arb.mReadPointer \in 0 .. arb.mCapacityFrames - 1
            /\ arb.mWritePointer \in 0 .. arb.mCapacityFrames - 1

\* an AdvanceReadPosition by the largest 32-bit count, on an allocated byte
\* buffer, took the read cursor from 0 to the last place of the storage
C28_Witness ==
    /\ harness = "lifebyte"
    /\ rb.mBuffer # NullBuffer
    /\ last.op = "AdvanceReadPosition" /\ last.count = UInt32Modulus - 1
    /\ rb.mReadPosition = rb.mCapacityBytes - 1
    /\ rb.mWritePosition = 0

ReaderOps == {"Read", "Peek", "AdvanceReadPosition", "ReadVector"}

WriterOps == {"Write", "AdvanceWritePosition", "WriteVector"}

QueryOps ==
    {"BytesAvailableToRead", "BytesAvailableToWrite",
     "FramesAvailableToRead", "FramesAvailableToWrite"}

\* C30: each cursor is written by one role only: Read, Peek,
\* AdvanceReadPosition and ReadVector never modify the write cursor or the
\* storage; Write, AdvanceWritePosition and WriteVector never modify the read
\* cursor; and the availability queries modify nothing.
C30_RolesStep ==
    /\ (harness = "lifebyte" /\ last'.op \in ReaderOps)
         => /\ rb'.mWritePosition = rb.mWritePosition
            /\ rb'.mBuffer = rb.mBuffer
            /\ rb'.mCapacityBytes = rb.mCapacityBytes
            /\ rb'.mCapacityBytesMask = rb.mCapacityBytesMask
    /\ (harness = "lifebyte" /\ last'.op \in WriterOps)
         => /\ rb'.mReadPosition = rb.mReadPosition
            /\ rb'.mCapacityBytes = rb.mCapacityBytes
            /\ rb'.mCapacityBytesMask = rb.mCapacityBytesMask
    /\ (harness = "lifebyte" /\ last'.op \in {"ReadVector", "WriteVector"} \cup QueryOps)
         => rb' = rb
    /\ (harness = "lifeframe" /\ last'.op \in ReaderOps)
         => /\ arb'.mWritePointer = arb.mWritePointer
            /\ arb'.mBuffers = arb.mBuffers
    /\ (harness = "lifeframe" /\ last'.op \in WriterOps)
         => arb'.mReadPointer = arb.mReadPointer
    /\ (harness = "lifeframe" /\ last'.op \in QueryOps)
         => arb' = arb

C30_Roles == [][C30_RolesStep]_vars

\* an AdvanceWritePosition by the largest 32-bit count wrapped the write
\* cursor to 0 and left the read cursor at 1
C30_Witness ==
    /\ harness = "lifebyte"
    /\ rb.mBuffer # NullBuffer
    /\ last.op = "AdvanceWritePosition" /\ last.count = UInt32Modulus - 1
    /\ rb.mWritePosition = 0
    /\ rb.mReadPosition = 1

----------------------------------------------------------------------------
(* A caller of SFB::RingBuffer that transfers through the vectors: it asks   *)
(* for ReadVector or WriteVector, copies the first n bytes the two spans     *)
(* describe itself, and commits with AdvanceReadPosition(n) or               *)
(* AdvanceWritePosition(n).                                                  *)

\* the offset from mBuffer of the k-th byte (k = 1, 2, ...) the spans describe
VectorOffset(vec, k) ==
    IF k <= vec[1].len THEN vec[1].ptr + (k - 1) ELSE vec[2].ptr + (k - 1 - vec[1].len)

\* the first n bytes the spans describe, read from the storage
VectorBytes(o, vec, n) == [k \in 1 .. n |-> o.mBuffer[VectorOffset(vec, k)]]

\* the object after the caller stored src in the first Len(src) bytes the
\* spans describe
VectorFill(o, vec, src) ==
    [o EXCEPT !.mBuffer =
        [i \in DOMAIN o.mBuffer |->
            IF \E k \in 1 .. Len(src) : VectorOffset(vec, k) = i
            THEN src[CHOOSE k \in 1 .. Len(src) : VectorOffset(vec, k) = i]
            ELSE o.mBuffer[i]]]

InitVector ==
    /\ rb = RingBuffer_Allocate(RingBuffer_Init, RequestedCapacityBytes, TRUE).obj
    /\ arb = AudioRingBuffer_Init
    /\ crb = CARingBuffer_Init
    /\ published = {}
    /\ prod = Idle(0)
    /\ cons = Idle(0)
    /\ written = <<>>
    /\ readOut = <<>>
    /\ harness = "vector"
    /\ wrTotal = 0
    /\ rdTotal = 0
    /\ last = NoCall
    /\ prev = NoCall

\* ReadVector, the caller's copy of n bytes, AdvanceReadPosition(n)
VectorRead ==
    /\ harness = "vector"
    /\ \E n \in 1 .. MaxCount :
         LET vec == RingBuffer_ReadVector(rb)
         IN  /\ n <= RingBuffer_BytesAvailableToRead(rb)
             /\ rb' = RingBuffer_AdvanceReadPosition(rb, n)
             /\ rdTotal' = (rdTotal + n) % ByteModulus
             /\ last' = Call("ReadVector", n, FALSE, FALSE, n, <<>>,
                             DstWrite(FreshDst, 0, VectorBytes(rb, vec, n)),
                             rb.mReadPosition, rb.mWritePosition, vec)
    /\ UNCHANGED <<arb, crb, harness, wrTotal, prev, threadVars>>

\* WriteVector, the caller's copy of n bytes, AdvanceWritePosition(n)
VectorWrite ==
    /\ harness = "vector"
    /\ \E n \in 1 .. MaxCount :
         LET vec == RingBuffer_WriteVector(rb)
             src == Stream(wrTotal, n)
         IN  /\ n <= RingBuffer_BytesAvailableToWrite(rb)
             /\ rb' = RingBuffer_AdvanceWritePosition(VectorFill(rb, vec, src), n)
             /\ wrTotal' = (wrTotal + n) % ByteModulus
             /\ last' = Call("WriteVector", n, FALSE, FALSE, n, src, <<>>,
                             rb.mReadPosition, rb.mWritePosition, vec)
    /\ UNCHANGED <<arb, crb, harness, rdTotal, prev, threadVars>>

NextVector ==
    \/ VectorRead
    \/ VectorWrite

SpecVector == InitVector /\ [][NextVector]_vars

\* C31: for every n with 0 < n <= BytesAvailableToRead(), copying the first n
\* bytes described by ReadVector() and then calling AdvanceReadPosition(n)
\* yields the same bytes and the same resulting cursor state as
\* Read(dst, n, false); symmetrically, filling the first
\* n <= BytesAvailableToWrite() bytes described by WriteVector() and then
\* calling AdvanceWritePosition(n) is equivalent to Write(src, n, false).
C31_VectorStep ==
    LET c == last'
        read == RingBuffer_Read(rb, FreshDst, FALSE, c.count, FALSE)
        write == RingBuffer_Write(rb, c.src, FALSE, c.count, FALSE)
    IN  /\ (harness = "vector" /\ c.op = "ReadVector")
            => /\ read.ret = c.count
               /\ c.dst = read.dst
               /\ rb' = read.obj
        /\ (harness = "vector" /\ c.op = "WriteVector")
            => /\ write.ret = c.count
               /\ rb' = write.obj

C31_Vector == [][C31_VectorStep]_vars

\* the caller read 2 or more bytes through a vector of two spans, the second
\* of them longer than what was left to read
C31_Witness ==
    /\ harness = "vector"
    /\ last.op = "ReadVector"
    /\ last.count > 1
    /\ last.vec[1].len < last.count
    /\ last.vec[1].len + last.vec[2].len > last.count
    /\ rb.mReadPosition = (last.r0 + last.count) % rb.mCapacityBytes
    /\ \A k \in 1 .. last.count :
         last.dst[k] = rb.mBuffer[(last.r0 + k - 1) % rb.mCapacityBytes]

----------------------------------------------------------------------------
(* An SFB::RingBuffer and an SFB::AudioRingBuffer run side by side: every    *)
(* call is made on both with the same arguments, frames in place of bytes.   *)

\* the record of the last call made on both: what it returned on the byte
\* buffer (ret) and on the frame buffer (frames)
PairCall(op, ret, frames) == [op |-> op, ret |-> ret, frames |-> frames]

InitPair ==
    /\ rb = RingBuffer_Init
    /\ arb = AudioRingBuffer_Init
    /\ crb = CARingBuffer_Init
    /\ published = {}
    /\ prod = Idle(0)
    /\ cons = Idle(0)
    /\ written = <<>>
    /\ readOut = <<>>
    /\ harness = "pair"
    /\ wrTotal = 0
    /\ rdTotal = 0
    /\ last = PairCall("none", 0, 0)
    /\ prev = NoCall

PairAllocate ==
    /\ harness = "pair"
    /\ \E capacity \in {1, 2, RequestedCapacityBytes}, mallocOk \in BOOLEAN :
         LET b == RingBuffer_Allocate(rb, capacity, mallocOk)
             f == AudioRingBuffer_Allocate(arb, TheFormat, capacity, mallocOk)
         IN  /\ rb' = b.obj
             /\ arb' = f.obj
             /\ last' = PairCall("Allocate", b.ret, f.ret)
    /\ UNCHANGED <<crb, harness, wrTotal, rdTotal, prev, threadVars>>

PairReset ==
    /\ harness = "pair"
    /\ rb' = RingBuffer_Reset(rb)
    /\ arb' = AudioRingBuffer_Reset(arb)
    /\ last' = PairCall("Reset", 0, 0)
    /\ UNCHANGED <<crb, harness, wrTotal, rdTotal, prev, threadVars>>

PairRead ==
    /\ harness = "pair"
    /\ \E a \in LifeArgs(RequestedCapacityBytes) :
         LET b == RingBuffer_Read(rb, FreshDst, a[3], a[1], a[2])
             f == AudioRingBuffer_Read(arb, FreshABL, a[3], a[1], a[2])
         IN  /\ IF \/ rb.mBuffer = NullBuffer /\ b.ret > 0
                   \/ arb.mBuffers = NullBuffer /\ f.ret > 0
                THEN /\ harness' \in UndefinedOutcomes
                     /\ rb' = (IF harness' = "crashed" THEN rb ELSE b.obj)
                     /\ arb' = (IF harness' = "crashed" THEN arb ELSE f.obj)
                ELSE /\ rb' = b.obj
                     /\ arb' = f.obj
                     /\ UNCHANGED harness
             /\ last' = PairCall("Read", b.ret, f.ret)
    /\ UNCHANGED <<crb, wrTotal, rdTotal, prev, threadVars>>

\* the program writes the first bytes and frames of its streams every time
PairWrite ==
    /\ harness = "pair"
    /\ \E a \in LifeArgs(RequestedCapacityBytes) :
         LET b == RingBuffer_Write(rb, Stream(0, a[1]), a[3], a[1], a[2])
             f == AudioRingBuffer_Write(arb, FrameSource(0, a[1]), a[3], a[1], a[2])
         IN  /\ IF \/ rb.mBuffer = NullBuffer /\ b.ret > 0
                   \/ arb.mBuffers = NullBuffer /\ f.ret > 0
                THEN /\ harness' \in UndefinedOutcomes
                     /\ rb' = (IF harness' = "crashed" THEN rb ELSE b.obj)
                     /\ arb' = (IF harness' = "crashed" THEN arb ELSE f.obj)
                ELSE /\ rb' = b.obj
                     /\ arb' = f.obj
                     /\ UNCHANGED harness
             /\ last' = PairCall("Write", b.ret, f.ret)
    /\ UNCHANGED <<crb, wrTotal, rdTotal, prev, threadVars>>

NextPair ==
    \/ PairAllocate
    \/ PairReset
    \/ PairRead
    \/ PairWrite

SpecPair == InitPair /\ [][NextPair]_vars

\* the two buffers return the same, stand at the same cursors and report the
\* same availability
InStep ==
    /\ last.ret = last.frames
    /\ rb.mReadPosition = arb.mReadPointer
    /\ rb.mWritePosition = arb.mWritePointer
    /\ RingBuffer_BytesAvailableToRead(rb) = AudioRingBuffer_FramesAvailableToRead(arb)
    /\ RingBuffer_BytesAvailableToWrite(rb) = AudioRingBuffer_FramesAvailableToWrite(arb)

\* C32: run side by side on the same sequence of Allocate(capacity), Reset,
\* Read(count, allowPartial) and Write(count, allowPartial) calls, a
\* FrameRingBuffer and a ByteRingBuffer of the same capacity return the same
\* counts at every step and have equal cursors and equal available-to-read
\* and available-to-write values after every step, with frames in place of
\* bytes.
C32_SideBySide == harness = "pair" => InStep

----------------------------------------------------------------------------
(* One thread writing to an SFB::CARingBuffer and then reading from it, the  *)
(* frames of every Write told apart from those of the Writes before it       *)

\* more than any byte TimedSource supplies
GenStride == TimedByte(MaxTime + Pow2(WordBits - 1), NumChannels, BytesPerFrame)

\* byte b of channel c of the frame the g-th Write supplies for sample time t
GenByte(g, t, c, b) == g * GenStride + TimedByte(t, c, b)

\* the buffer list the g-th Write passes for the times [t, t + frameCount)
GenSource(g, t, frameCount) ==
    [c \in 1 .. NumChannels |->
        AudioBuffer([k \in 1 .. frameCount * BytesPerFrame |->
                        GenByte(g, t + (k - 1) \div BytesPerFrame, c, (k - 1) % BytesPerFrame)],
                    frameCount * BytesPerFrame)]

GenFrame(g, t, c) == [b \in 0 .. BytesPerFrame - 1 |-> GenByte(g, t, c, b)]

\* what was last done for the sample time t: nothing (-1), zeroed as part of a
\* gap (0), or supplied by the g-th Write (g)
Untouched == -1

ZeroFilled == 0

\* the history after the g-th Write, of [startWrite, endWrite), was accepted
\* with the end bound at oldEnd
Covered(history, g, startWrite, endWrite, oldEnd) ==
    [t \in DOMAIN history |->
        IF startWrite <= t /\ t < endWrite THEN g
        ELSE IF oldEnd <= t /\ t < startWrite THEN ZeroFilled
        ELSE history[t]]

InitCAHistory ==
    /\ rb = RingBuffer_Init
    /\ arb = AudioRingBuffer_Init
    /\ crb = CARingBuffer_Allocate(CARingBuffer_Init, TheFormat, RequestedCapacityFrames, TRUE).obj
    /\ published = {}
    /\ harness = "cahistory"
    /\ wrTotal = 0
    /\ rdTotal = 0
    /\ last = NoCall
    /\ prev = NoCall
    /\ prod = Idle(0)
    /\ cons = Idle(0)
    /\ written = [t \in 0 .. MaxTime + crb.mCapacityFrames |-> Untouched]
    /\ readOut = <<>>

\* Write; wrTotal counts the Writes that stored frames and written is the
\* history of the sample times
CAHistoryWrite ==
    /\ harness = "cahistory"
    /\ crb.mTimeBoundsQueueCounter <= MaxPublications
    /\ \E a \in WriteArgs(crb.mCapacityFrames) :
         LET src == GenSource(wrTotal + 1, a[2], a[1])
             res == CARingBuffer_Write(crb, src, a[3], a[1], a[2])
             stores == res.ret /\ a[1] > 0
         IN  /\ crb' = res.obj
             /\ last' = TimedCall("Write", a[1], a[2], a[3], res.ret, src, 0, 0)
             /\ wrTotal' = IF stores THEN wrTotal + 1 ELSE wrTotal
             /\ written' = IF stores
                           THEN Covered(written, wrTotal + 1, a[2], a[2] + a[1],
                                        CARingBuffer_EndTime(crb))
                           ELSE written
    /\ UNCHANGED <<rb, arb, harness, rdTotal, prev, prod, cons, readOut, published>>

\* Read of every accepted count at every time up to the latest end bound,
\* the buffer list having room for the frames asked for; the program ends
\* with it
CAHistoryRead ==
    /\ harness = "cahistory"
    /\ \E n \in 1 .. crb.mCapacityFrames, t \in 0 .. MaxTime + crb.mCapacityFrames :
         LET res == CARingBuffer_Read(crb, CallerABL(n), FALSE, n, t)
         IN  last' = TimedRead(n, t, FALSE, n, res.ret, res.abl)
    /\ harness' = "done"
    /\ UNCHANGED <<rb, arb, crb, wrTotal, rdTotal, prev, threadVars>>

NextCAHistory ==
    \/ CAHistoryWrite
    \/ CAHistoryRead

SpecCAHistory == InitCAHistory /\ [][NextCAHistory]_vars

\* the frame a Read is to return for the sample time t on channel c
Expected(history, t, c) ==
    IF history[t] = ZeroFilled THEN ZeroFrame ELSE GenFrame(history[t], t, c)

\* the example: capacity 8, Write of 4 frames at 0, Write of 6 frames at 4
ExampleObject ==
    LET o0 == CARingBuffer_Allocate(CARingBuffer_Init, TheFormat, RequestedCapacityCA, TRUE).obj
        o1 == CARingBuffer_Write(o0, GenSource(1, 0, 4), FALSE, 4, 0).obj
    IN  CARingBuffer_Write(o1, GenSource(2, 4, 6), FALSE, 6, 4).obj

C34_Example ==
    LET read == CARingBuffer_Read(ExampleObject, CallerABL(4), FALSE, 4, 2)
    IN  /\ ExampleObject.mCapacityFrames = 8
        /\ read.ret
        /\ \A c \in 1 .. NumChannels :
             /\ read.abl[c].mDataByteSize = 4 * BytesPerFrame
             /\ FrameOf(read.abl, c, 0) = GenFrame(1, 2, c)
             /\ FrameOf(read.abl, c, 1) = GenFrame(1, 3, c)
             /\ FrameOf(read.abl, c, 2) = GenFrame(2, 4, c)
             /\ FrameOf(read.abl, c, 3) = GenFrame(2, 5, c)

\* C34: single-threaded, after any sequence of successful
\* TimestampedFrameRingBuffer Writes (forward, gapped, overrunning and
\* rewinding, with full-size source buffers), for every sample time t inside
\* the published [startTime, endTime) a Read covering t returns the frame
\* supplied for t by the most recent Write that covered t, or zero if t was
\* last covered by a gap zero-fill; e.g. after Writes of 4 frames at 0 and 6
\* frames at 4 with capacity 8, Read of [2,6) returns 4 valid frames equal to
\* what was written at times 2..5.
C34_ReadsLatest ==
    /\ C34_Example
    /\ \A t \in CARingBuffer_StartTime(crb) .. CARingBuffer_EndTime(crb) - 1 :
         written[t] # Untouched
    /\ ReadAccepted
         => /\ last.ret
            /\ \A c \in 1 .. NumChannels :
                 \A t \in OverlapStart .. OverlapEnd - 1 :
                    FrameOf(last.abl, c, t - last.time) = Expected(written, t, c)

\* the second Write went back in time over frames of the first: the Read
\* returned the frames of the second for the times both had covered, and
\* zero after the end bound, where frames of the first are still in the
\* history
C34_Witness ==
    /\ ReadAccepted /\ last.ret
    /\ wrTotal = 2
    /\ OverlapEnd - OverlapStart >= 2
    /\ last.time + last.count > OverlapEnd
    /\ \A t \in OverlapStart .. OverlapEnd - 1 : written[t] = 2
    /\ \E u \in DOMAIN written : u < OverlapStart /\ written[u] = 1
    /\ \E v \in DOMAIN written : v >= OverlapEnd /\ written[v] = 1
    /\ \A c \in 1 .. NumChannels :
         /\ \A t \in OverlapStart .. OverlapEnd - 1 :
              FrameOf(last.abl, c, t - last.time) = GenFrame(2, t, c)
         /\ FrameOf(last.abl, c, last.count - 1) = ZeroFrame

----------------------------------------------------------------------------
(* The frames a Write modifies against the bounds published while it does *)

\* the <<channel, byte offset>> places of the channel buffers that the
\* zeroing and the copy of Write(endWrite - startWrite frames at startWrite)
\* store to, on the object o as it is when they run
TouchedBytes(o, startWrite, endWrite) ==
    LET blank == [o EXCEPT !.mBuffers =
                     [c \in DOMAIN o.mBuffers |->
                         [i \in DOMAIN o.mBuffers[c] |-> Untouched]]]
        after == CARingBuffer_Store(blank, CARingBuffer_ZeroGap(blank, startWrite),
                                    TimedSource(startWrite, endWrite - startWrite),
                                    startWrite, endWrite)
    IN  {p \in UNION {{<<c, i>> : i \in DOMAIN o.mBuffers[c]} : c \in DOMAIN o.mBuffers} :
            after[p[1]][p[2]] # Untouched}

\* the sample times inside the bounds published on o
PublishedTimes(o) == CARingBuffer_StartTime(o) .. CARingBuffer_EndTime(o) - 1

\* the place of sample time t in a channel buffer, in frames
FrameSlot(o, t) == t % o.mCapacityFrames

C35_Published ==
    \A t \in PublishedTimes(crb) : \A c \in 1 .. NumChannels :
        StoredFrame(crb, t, c) \in {TimedFrame(t, c), ZeroFrame}

C35_StoreStep ==
    /\ crb'.mBuffers # crb.mBuffers
         => /\ prod.pc = "store"
            /\ crb'.mTimeBoundsQueue = crb.mTimeBoundsQueue
            /\ crb'.mTimeBoundsQueueCounter = crb.mTimeBoundsQueueCounter
    /\ (prod.pc = "store" /\ prod'.pc # "store")
         => /\ \A p \in TouchedBytes(crb, prod.startWrite, prod.endWrite) :
                 \A t \in PublishedTimes(crb) :
                    p[2] \div BytesPerFrame # FrameSlot(crb, t)
            /\ \A t \in PublishedTimes(crb) : \A c \in 1 .. NumChannels :
                 StoredFrame(crb', t, c) = StoredFrame(crb, t, c)
            /\ PublishedTimes(crb') = PublishedTimes(crb)
            /\ CARingBuffer_EndTime(crb) <= prod.startWrite
    /\ (prod.pc \in {"setStartTime", "setEndTime", "setUpdateCounter"} /\ ~prod.final)
         => crb'.mBuffers = crb.mBuffers
    /\ ~(PublishedTimes(crb') \subseteq PublishedTimes(crb))
         => /\ prod.pc = "setCounter" /\ prod.final
            /\ CARingBuffer_EndTime(crb') = prod.endWrite
            /\ \A t \in prod.startWrite .. prod.endWrite - 1 : \A c \in 1 .. NumChannels :
                 StoredFrame(crb, t, c) = TimedFrame(t, c)

\* C35: at every intermediate step of a TimestampedFrameRingBuffer Write
\* (single writer), no physical frame slot that the Write is zeroing or
\* overwriting corresponds to a sample time inside the bounds published at
\* that moment: the bounds are shrunk (rewind collapse or start advance)
\* before the first byte is modified, and the new endTime is published only
\* after the last byte of the copy.
C35_WriteOrder == []C35_Published /\ [][C35_StoreStep]_vars

\* a Write that overran the capacity has advanced the start bound, zeroed a
\* gap and copied its frames into the places of the evicted times, and its
\* end bound is not published yet
C35_Witness ==
    /\ prod.pc = "setStartTime" /\ prod.final
    /\ crb.mTimeBoundsQueueCounter = 2
    /\ crb.mTimeBoundsQueue[1].mStartTime < CARingBuffer_StartTime(crb)
    /\ CARingBuffer_StartTime(crb) < CARingBuffer_EndTime(crb)
    /\ CARingBuffer_EndTime(crb) < prod.startWrite
    /\ \A c \in 1 .. NumChannels :
         /\ \A t \in prod.startWrite .. prod.endWrite - 1 :
              StoredFrame(crb, t, c) = TimedFrame(t, c)
         /\ \A t \in CARingBuffer_EndTime(crb) .. prod.startWrite - 1 :
              StoredFrame(crb, t, c) = ZeroFrame
         /\ \A t \in PublishedTimes(crb) : StoredFrame(crb, t, c) = TimedFrame(t, c)

----------------------------------------------------------------------------
(* The stores of SetTimeBounds, one by one *)

C36_Quiescent ==
    prod.pc = "idle"
        => crb.mTimeBoundsQueue[crb.mTimeBoundsQueueCounter % sTimeBoundsQueueSize]
               .mUpdateCounter = crb.mTimeBoundsQueueCounter

C36_StoreStep ==
    LET counter == crb.mTimeBoundsQueueCounter
        next == (counter + 1) % sTimeBoundsQueueSize
        queue == crb.mTimeBoundsQueue
        slot == queue[next]
        slotAfter == crb'.mTimeBoundsQueue[next]
    IN  /\ crb'.mTimeBoundsQueue # queue
             => /\ \A i \in DOMAIN queue : i # next => crb'.mTimeBoundsQueue[i] = queue[i]
                /\ crb'.mTimeBoundsQueueCounter = counter
        /\ (slotAfter.mStartTime # slot.mStartTime \/ slotAfter.mEndTime # slot.mEndTime)
             => /\ slotAfter.mUpdateCounter = slot.mUpdateCounter
                /\ slot.mUpdateCounter # counter + 1
        /\ slotAfter.mUpdateCounter # slot.mUpdateCounter
             => /\ slotAfter.mUpdateCounter = counter + 1
                /\ slotAfter.mStartTime = slot.mStartTime
                /\ slotAfter.mEndTime = slot.mEndTime
                /\ slot.mStartTime = prod.startTime
                /\ slot.mEndTime = prod.endTime
        /\ crb'.mTimeBoundsQueueCounter # counter
             => /\ crb'.mTimeBoundsQueueCounter = counter + 1
                /\ crb'.mTimeBoundsQueue = queue
                /\ slot = TimeBounds(prod.startTime, prod.endTime, counter + 1)
        /\ (prod.pc = "setStartTime" /\ prod'.pc = "setEndTime")
             => (prod.nextCounter = counter + 1 /\ slotAfter.mStartTime = prod.startTime)
        /\ (prod.pc = "setEndTime" /\ prod'.pc = "setUpdateCounter")
             => (slot.mStartTime = prod.startTime /\ slotAfter.mEndTime = prod.endTime)

\* C36: each SetTimeBounds publication increments the shared publication
\* counter by exactly 1, writes only slot (counter+1) mod 8, and performs its
\* stores in the order: slot start/end fields, then the slot's own counter,
\* then the shared counter; consequently in every quiescent state the slot
\* selected by the shared counter carries an equal per-slot counter.
C36_Publication == []C36_Quiescent /\ [][C36_StoreStep]_vars

\* the ninth publication has stored the fields and the counter of slot 1,
\* used for the second time, and not yet the shared counter, which selects
\* slot 0
C36_Witness ==
    /\ prod.pc = "setCounter"
    /\ prod.nextCounter = sTimeBoundsQueueSize + 1
    /\ crb.mTimeBoundsQueueCounter = sTimeBoundsQueueSize
    /\ crb.mTimeBoundsQueue[0].mUpdateCounter = sTimeBoundsQueueSize
    /\ crb.mTimeBoundsQueue[1] = TimeBounds(prod.startTime, prod.endTime, sTimeBoundsQueueSize + 1)

----------------------------------------------------------------------------
(* One thread calling Write, Read and GetTimeBounds of an SFB::CARingBuffer  *)
(* in any order; prev is a second object that is given the Writes only       *)

InitCAObserve ==
    /\ rb = RingBuffer_Init
    /\ arb = AudioRingBuffer_Init
    /\ crb \in {CARingBuffer_Init,
                CARingBuffer_Allocate(CARingBuffer_Init, TheFormat,
                                      RequestedCapacityFrames, TRUE).obj}
    /\ published = {}
    /\ harness = "caobserve"
    /\ wrTotal = 0
    /\ rdTotal = 0
    /\ last = NoCall
    /\ prev = crb
    /\ prod = Idle(0)
    /\ cons = Idle(0)
    /\ written = <<>>
    /\ readOut = <<>>

\* the Reads of the caller, whose buffer list has room for every frame the
\* ring can hold
ObserveArgs(capacity) == {a \in ReadArgs(capacity) : a[4] >= capacity}

ObserveWrite ==
    /\ harness = "caobserve"
    /\ crb.mTimeBoundsQueueCounter < MaxPublications
    /\ \E a \in WriteArgs(crb.mCapacityFrames) :
         LET src == TimedSource(a[2], a[1])
             res == CARingBuffer_Write(crb, src, a[3], a[1], a[2])
         IN  /\ crb' = res.obj
             /\ prev' = CARingBuffer_Write(prev, src, a[3], a[1], a[2]).obj
             /\ last' = TimedCall("Write", a[1], a[2], a[3], res.ret, src, 0, 0)
    /\ UNCHANGED <<rb, arb, harness, wrTotal, rdTotal, threadVars>>

\* ObserveRead dropping the frames it returned from the bounds
ObserveRead_Consuming ==
    /\ harness = "caobserve"
    /\ \E a \in ObserveArgs(crb.mCapacityFrames) :
         LET res == CARingBuffer_Read(crb, CallerABL(a[4]), a[3], a[1], a[2])
         IN  /\ last' = TimedRead(a[1], a[2], a[3], a[4], res.ret, res.abl)
             /\ crb' = IF res.ret /\ a[1] > 0
                            /\ a[2] < CARingBuffer_EndTime(crb)
                            /\ a[2] + a[1] > CARingBuffer_StartTime(crb)
                       THEN CARingBuffer_SetTimeBounds(crb,
                                Min(a[2] + a[1], CARingBuffer_EndTime(crb)),
                                CARingBuffer_EndTime(crb))
                       ELSE crb
    /\ rdTotal' = 1
    /\ UNCHANGED <<rb, arb, harness, wrTotal, prev, threadVars>>

\* Read; rdTotal is 1 once Read or GetTimeBounds was called
ObserveRead ==
    /\ harness = "caobserve"
    /\ \E a \in ObserveArgs(crb.mCapacityFrames) :
         LET res == CARingBuffer_Read(crb, CallerABL(a[4]), a[3], a[1], a[2])
         IN  last' = TimedRead(a[1], a[2], a[3], a[4], res.ret, res.abl)
    /\ rdTotal' = 1
    /\ UNCHANGED <<rb, arb, crb, harness, wrTotal, prev, threadVars>>

ObserveGetTimeBounds ==
    /\ harness = "caobserve"
    /\ LET res == CARingBuffer_GetTimeBounds(crb)
       IN  last' = TimedCall("GetTimeBounds", 0, 0, FALSE, res.ret, <<>>,
                             res.startTime, res.endTime)
    /\ rdTotal' = 1
    /\ UNCHANGED <<rb, arb, crb, harness, wrTotal, prev, threadVars>>

NextCAObserve ==
    \/ ObserveWrite
    \/ ObserveRead
    \/ ObserveGetTimeBounds

SpecCAObserve == InitCAObserve /\ [][NextCAObserve]_vars

C37_SameAsUnobserved == crb = prev

C37_ObserverStep ==
    last'.op \in {"Read", "GetTimeBounds"}
        => /\ crb'.mTimeBoundsQueue = crb.mTimeBoundsQueue
           /\ crb'.mTimeBoundsQueueCounter = crb.mTimeBoundsQueueCounter
           /\ crb'.mCapacityFrames = crb.mCapacityFrames
           /\ crb'.mCapacityFramesMask = crb.mCapacityFramesMask
           /\ crb'.mBuffers = crb.mBuffers
           /\ crb'.mFormat = crb.mFormat

\* C37: TimestampedFrameRingBuffer Read and GetTimeBounds are pure observers:
\* in every state and for every argument they leave the bounds slots, the
\* publication counter, the capacity and the ring storage unchanged, so no
\* sequence of reader calls can change the result of any writer call.
C37_Observers == []C37_SameAsUnobserved /\ [][C37_ObserverStep]_vars

\* a Write that went over the capacity was made after Reads or GetTimeBounds
\* calls, and the object is the one the Writes alone give
C37_Witness ==
    /\ harness = "caobserve"
    /\ rdTotal = 1
    /\ last.op = "Write" /\ last.ret /\ last.count > 0
    /\ crb.mTimeBoundsQueueCounter = 3
    /\ CARingBuffer_StartTime(crb) > 0
    /\ CARingBuffer_EndTime(crb) - CARingBuffer_StartTime(crb) = crb.mCapacityFrames
    /\ crb = prev

----------------------------------------------------------------------------
(* A producer thread that calls Write(N, allowPartial = false) again until   *)
(* it returns N, and a consumer thread that calls Read with allowPartial =   *)
(* true again and again.  wrTotal is the N of the Write the producer has not *)
(* completed yet (0 when there is none), rdTotal is 1 once a Write returned  *)
(* 0 and was called again.                                                   *)

InitRetry ==
    /\ rb = RingBuffer_Allocate(RingBuffer_Init, RequestedCapacityBytes, TRUE).obj
    /\ arb = AudioRingBuffer_Init
    /\ crb = CARingBuffer_Init
    /\ published = {}
    /\ harness = "retry"
    /\ wrTotal = 0
    /\ rdTotal = 0
    /\ last = NoCall
    /\ prev = NoCall
    /\ prod = Idle(0)
    /\ cons = Idle(0)
    /\ written = <<>>
    /\ readOut = <<>>

\* Write is called, with a new N or with the N of the call that returned 0
RetryProducerCall ==
    /\ harness = "retry"
    /\ prod.pc = "idle"
    /\ \E N \in 1 .. rb.mCapacityBytes - 1 :
         /\ \/ wrTotal = 0 /\ Len(written) + N <= MaxTotal
            \/ wrTotal = N
         /\ wrTotal' = N
         /\ prod' = Entered(N, FALSE, Stream(Len(written), N))
    /\ UNCHANGED <<rb, arb, crb, published, harness, rdTotal, last, prev,
                   cons, written, readOut>>

RetryProducerLoadWrite ==
    /\ harness = "retry"
    /\ ProducerLoadWrite
    /\ UNCHANGED <<arb, crb, published, callVars>>

RetryProducerLoadRead ==
    /\ harness = "retry"
    /\ ProducerLoadRead
    /\ rdTotal' = IF prod'.pc = "idle" THEN 1 ELSE rdTotal
    /\ UNCHANGED <<arb, crb, published, harness, wrTotal, last, prev>>

RetryProducerCopy ==
    /\ harness = "retry"
    /\ ProducerCopy
    /\ UNCHANGED <<arb, crb, published, callVars>>

\* Write returns N
RetryProducerStore ==
    /\ harness = "retry"
    /\ ProducerStore
    /\ wrTotal' = 0
    /\ UNCHANGED <<arb, crb, published, harness, rdTotal, last, prev>>

\* RetryConsumerCall of a consumer that asks for a whole capacity of bytes
\* and no less
RetryConsumerCall_AllOrNothing ==
    /\ harness = "retry"
    /\ cons.pc = "idle"
    /\ cons' = Entered(rb.mCapacityBytes, FALSE, FreshDst)
    /\ UNCHANGED <<rb, arb, crb, published, callVars, prod, written, readOut>>

\* Read is called
RetryConsumerCall ==
    /\ harness = "retry"
    /\ cons.pc = "idle"
    /\ \E n \in 1 .. MaxCount : cons' = Entered(n, TRUE, FreshDst)
    /\ UNCHANGED <<rb, arb, crb, published, callVars, prod, written, readOut>>

RetryConsumerLoadWrite ==
    /\ harness = "retry"
    /\ ConsumerLoadWrite
    /\ UNCHANGED <<arb, crb, published, callVars>>

RetryConsumerLoadRead ==
    /\ harness = "retry"
    /\ ConsumerLoadRead
    /\ UNCHANGED <<arb, crb, published, callVars>>

RetryConsumerCopy ==
    /\ harness = "retry"
    /\ ConsumerCopy
    /\ UNCHANGED <<arb, crb, published, callVars>>

RetryConsumerStore ==
    /\ harness = "retry"
    /\ ConsumerStore
    /\ UNCHANGED <<arb, crb, published, callVars>>

\* the next step of the producer thread
RetryProducer ==
    \/ RetryProducerCall
    \/ RetryProducerLoadWrite
    \/ RetryProducerLoadRead
    \/ RetryProducerCopy
    \/ RetryProducerStore

\* the next step of the consumer thread
RetryConsumer ==
    \/ RetryConsumerCall
    \/ RetryConsumerLoadWrite
    \/ RetryConsumerLoadRead
    \/ RetryConsumerCopy
    \/ RetryConsumerStore

NextRetry ==
    \/ RetryProducerCall
    \/ RetryProducerLoadWrite
    \/ RetryProducerLoadRead
    \/ RetryProducerCopy
    \/ RetryProducerStore
    \/ RetryConsumerCall
    \/ RetryConsumerLoadWrite
    \/ RetryConsumerLoadRead
    \/ RetryConsumerCopy
    \/ RetryConsumerStore

SpecRetry == InitRetry /\ [][NextRetry]_vars

\* each thread, while it has a next step, is scheduled again
SpecRetryFair ==
    InitRetry /\ [][NextRetry]_vars /\ WF_vars(RetryProducer) /\ WF_vars(RetryConsumer)

C38_WriteSucceeds == (wrTotal > 0) ~> (wrTotal = 0)

C38_BytesRead ==
    \A k \in 1 .. MaxTotal : (Len(written) >= k) ~> (Len(readOut) >= k)

C38_NoStall == ~<>[](wrTotal > 0 /\ prod.ret = 0 /\ cons.ret = 0)

\* C38: under weak fairness of both threads, with a producer that retries
\* Write(N, allowPartial=false) for some 1 <= N <= capacity-1 until it returns
\* N and a consumer that repeatedly calls Read with allowPartial=true, every
\* retried Write eventually succeeds and every accepted byte is eventually
\* read; there is no reachable state in which Read and Write both return 0
\* forever.
C38_Progress == C38_WriteSucceeds /\ C38_BytesRead /\ C38_NoStall

\* a Write returned 0 and was called again, and the whole stream was accepted
\* and read, in order
C38_Witness ==
    /\ harness = "retry"
    /\ rdTotal = 1
    /\ wrTotal = 0
    /\ Len(written) = MaxTotal
    /\ readOut = written

----------------------------------------------------------------------------
(* Allocate of the two frame buffers for every capacity it accepts and every *)
(* mBytesPerFrame a UInt32 holds                                             *)

InitWide ==
    /\ rb = RingBuffer_Init
    /\ arb = AudioRingBuffer_Init
    /\ crb = CARingBuffer_Init
    /\ published = {}
    /\ harness = "wide"
    /\ wrTotal = 0
    /\ rdTotal = 0
    /\ last = NoCall
    /\ prev = NoCall
    /\ prod = Idle(0)
    /\ cons = Idle(0)
    /\ written = <<>>
    /\ readOut = <<>>

WideFrameAllocate ==
    /\ harness = "wide"
    /\ \E capacityFrames \in 2 .. Pow2(WordBits - 1) :
         \E bytesPerFrame \in 0 .. UInt32Modulus - 1 :
            LET res == AudioRingBuffer_Allocate(arb, Format(NumChannels, bytesPerFrame, TRUE),
                                                capacityFrames, TRUE)
            IN  /\ arb' = res.obj
                /\ last' = AllocateCall("AudioRingBuffer", capacityFrames, FALSE, res.ret)
    /\ harness' = "done"
    /\ UNCHANGED <<rb, crb, wrTotal, rdTotal, prev, threadVars>>

WideCAAllocate ==
    /\ harness = "wide"
    /\ \E capacityFrames \in 2 .. Pow2(WordBits - 1) :
         \E bytesPerFrame \in 0 .. UInt32Modulus - 1 :
            LET res == CARingBuffer_Allocate(crb, Format(NumChannels, bytesPerFrame, TRUE),
                                             capacityFrames, TRUE)
            IN  /\ crb' = res.obj
                /\ last' = AllocateCall("CARingBuffer", capacityFrames, FALSE, res.ret)
    /\ harness' = "done"
    /\ UNCHANGED <<rb, arb, wrTotal, rdTotal, prev, threadVars>>

NextWide ==
    \/ WideFrameAllocate
    \/ WideCAAllocate

SpecWide == InitWide /\ [][NextWide]_vars

\* the byte offset the transfers compute for a cursor: cursor * mBytesPerFrame
\* as a uint32_t
CursorByteOffset(cursor, bytesPerFrame) == U32(cursor * bytesPerFrame)

\* the channel regions of an allocated frame buffer are exactly
\* capacity * mBytesPerFrame bytes, the product fits a uint32_t, and the frame
\* at every cursor lies inside the region
RegionsFit(capacity, bytesPerFrame, buffers) ==
    /\ capacity * bytesPerFrame < UInt32Modulus
    /\ \A ch \in DOMAIN buffers :
         DOMAIN buffers[ch] = 0 .. capacity * bytesPerFrame - 1
    /\ \A cursor \in 0 .. capacity - 1 :
         /\ CursorByteOffset(cursor, bytesPerFrame) = cursor * bytesPerFrame
         /\ \A ch \in DOMAIN buffers : \A b \in 0 .. bytesPerFrame - 1 :
              CursorByteOffset(cursor, bytesPerFrame) + b \in DOMAIN buffers[ch]

\* C39: for every accepted capacityFrames in [2, 2^31] and every 32-bit
\* bytesPerFrame, FrameRingBuffer and TimestampedFrameRingBuffer Allocate give
\* each channel a region of exactly roundedCapacityFrames * bytesPerFrame bytes
\* and every byte offset cursor * bytesPerFrame used by Read and Write lies
\* inside that region; the 32-bit products never wrap modulo 2^32.
C39_Regions ==
    /\ (last.op = "AudioRingBuffer" /\ last.ret)
         => RegionsFit(arb.mCapacityFrames, arb.mFormat.mBytesPerFrame, arb.mBuffers)
    /\ (last.op = "CARingBuffer" /\ last.ret)
         => RegionsFit(crb.mCapacityFrames, crb.mFormat.mBytesPerFrame, crb.mBuffers)

----------------------------------------------------------------------------
(* SFB::AudioRingBuffer called with buffer lists whose buffers hold fewer    *)
(* frames (room) than the frameCount of the call                             *)

ShortCall(op, frameCount, room, ret, copied, sizes) ==
    [op |-> op, count |-> frameCount, room |-> room, ret |-> ret,
     copied |-> copied, sizes |-> sizes]

\* the second StoreABL of a Write that wraps starts beyond the end of the
\* caller's buffers: its assert fails, or mDataByteSize - srcOffset wraps and
\* std::memcpy reads past the buffers
WriteOverruns(o, room, frameCount, allowPartial) ==
    LET framesAvailable == WritableFrames(o.mWritePointer, o.mReadPointer,
                                          o.mCapacityFrames, o.mCapacityFramesMask)
        framesToWrite == Min(framesAvailable, frameCount)
    IN  /\ ~Rejects(framesAvailable, frameCount, allowPartial)
        /\ o.mWritePointer + framesToWrite > o.mCapacityFrames
        /\ U32((o.mCapacityFrames - o.mWritePointer) * o.mFormat.mBytesPerFrame)
               > room * o.mFormat.mBytesPerFrame

\* the same for the second FetchABL of a Read that wraps
ReadOverruns(o, room, frameCount, allowPartial) ==
    LET framesAvailable == ReadableFrames(o.mWritePointer, o.mReadPointer,
                                          o.mCapacityFrames, o.mCapacityFramesMask)
        framesToRead == Min(framesAvailable, frameCount)
    IN  /\ ~Rejects(framesAvailable, frameCount, allowPartial)
        /\ o.mReadPointer + framesToRead > o.mCapacityFrames
        /\ U32((o.mCapacityFrames - o.mReadPointer) * o.mFormat.mBytesPerFrame)
               > room * o.mFormat.mBytesPerFrame

\* the bytes a Write stores in each channel of the ring: the Write is run on
\* a storage marked Untouched and the bytes it changed are counted
StoredBytes(o, bufferList, frameCount, allowPartial) ==
    LET marked == [o EXCEPT !.mBuffers =
                      [ch \in DOMAIN o.mBuffers |->
                          [b \in DOMAIN o.mBuffers[ch] |-> Untouched]]]
        after == AudioRingBuffer_Write(marked, bufferList, FALSE, frameCount,
                                       allowPartial).obj.mBuffers
    IN  [ch \in DOMAIN after |->
            Cardinality({b \in DOMAIN after[ch] : after[ch][b] # Untouched})]

\* the bytes a Read stored in each buffer of a list that was Poison before
FetchedBytes(bufferList) ==
    [ch \in DOMAIN bufferList |->
        Cardinality({k \in DOMAIN bufferList[ch].mData :
                        bufferList[ch].mData[k] # Poison})]

InitShort ==
    /\ rb = RingBuffer_Init
    /\ arb = AudioRingBuffer_Allocate(AudioRingBuffer_Init, TheFormat,
                                      RequestedCapacityFrames, TRUE).obj
    /\ crb = CARingBuffer_Init
    /\ published = {}
    /\ harness = "short"
    /\ wrTotal = 0
    /\ rdTotal = 0
    /\ last = NoCall
    /\ prev = NoCall
    /\ prod = Idle(0)
    /\ cons = Idle(0)
    /\ written = <<>>
    /\ readOut = <<>>

ShortWrite ==
    /\ harness = "short"
    /\ \E frameCount \in 1 .. RequestedCapacityFrames : \E room \in 0 .. frameCount :
       \E allowPartial \in BOOLEAN :
         IF WriteOverruns(arb, room, frameCount, allowPartial)
         THEN /\ harness' \in UndefinedOutcomes
              /\ UNCHANGED <<arb, last>>
         ELSE LET src == FrameSource(0, room)
                  res == AudioRingBuffer_Write(arb, src, FALSE, frameCount, allowPartial)
              IN  /\ arb' = res.obj
                  /\ last' = ShortCall("Write", frameCount, room, res.ret,
                                       StoredBytes(arb, src, frameCount, allowPartial),
                                       [ch \in DOMAIN src |-> src[ch].mDataByteSize])
                  /\ UNCHANGED harness
    /\ UNCHANGED <<rb, crb, wrTotal, rdTotal, prev, threadVars>>

ShortRead ==
    /\ harness = "short"
    /\ \E frameCount \in 1 .. RequestedCapacityFrames : \E room \in 0 .. frameCount :
       \E allowPartial \in BOOLEAN :
         IF ReadOverruns(arb, room, frameCount, allowPartial)
         THEN /\ harness' \in UndefinedOutcomes
              /\ UNCHANGED <<arb, last>>
         ELSE LET res == AudioRingBuffer_Read(arb, CallerABL(room), FALSE, frameCount,
                                              allowPartial)
              IN  /\ arb' = res.obj
                  /\ last' = ShortCall("Read", frameCount, room, res.ret,
                                       FetchedBytes(res.abl),
                                       [ch \in DOMAIN res.abl |-> res.abl[ch].mDataByteSize])
                  /\ UNCHANGED harness
    /\ UNCHANGED <<rb, crb, wrTotal, rdTotal, prev, threadVars>>

NextShort ==
    \/ ShortWrite
    \/ ShortRead

SpecShort == InitShort /\ [][NextShort]_vars

\* C40: the count returned by FrameRingBuffer Write (resp. Read) equals the
\* number of frames actually copied into (resp. out of) the ring on every
\* channel, and the byte size reported by Read never exceeds the channel
\* buffer's byte capacity, for every caller buffer list, including one whose
\* per-channel byte size is smaller than frameCount * bytesPerFrame.
C40_CopiedCount ==
    last.op \in {"Write", "Read"}
        => /\ \A ch \in DOMAIN last.copied :
                last.copied[ch] = last.ret * BytesPerFrame
           /\ last.op = "Read"
                => \A ch \in DOMAIN last.sizes :
                      last.sizes[ch] <= last.room * BytesPerFrame

====
